---- MODULE Spec2Model ----
(***************************************************************************)
(* Sadeed Knowledge Weaver: the document processing orchestrator           *)
(* (DocumentProcessingManager), the deduplicating front of the pipeline    *)
(* (IntelligentDocumentProcessor.processDocument), the classifier          *)
(* (DocumentClassifier.classifyDocument) and the rule-based segmenter      *)
(* (ruleBasedChunking).                                                    *)
(*                                                                         *)
(* A text is the sequence of its UTF-16 code units, as numbers.  A job is   *)
(* an object of the heap: `jobs` holds every ProcessingJob ever created,   *)
(* indexed by its id, and `processingQueue` holds ids, as the array holds  *)
(* references.                                                             *)
(* The run of processQueue is an async function: it gives up control at    *)
(* `await processDocument(...)` and at `await this.delay(100)`, and any    *)
(* other operation of the manager may be called at those two points.       *)
(***************************************************************************)
EXTENDS Integers, Sequences, FiniteSets, TLC

\* ------------------------------------------------------------------ bounds

\* Jobs created over the lifetime of one manager.
MaxJobs == 3
\* Documents handed to one addDocumentsToQueue call.
MaxBatch == 2
\* Direct processDocument calls recorded in SpecDirect.
MaxCalls == 3

\* ------------------------------------------------------------------- texts

\* A content value that is not a string at run time (undefined): cleanContent
\* calls content.replace on it and throws a TypeError.  No code unit is -1.
Undefined == <<-1>>

\* قانون
TextA == <<1602, 1575, 1606, 1608, 1606>>
\* Differs from TextA only in whitespace that cleanContent removes: ' قانون\r\n'
TextA2 == <<32, 1602, 1575, 1606, 1608, 1606, 13, 10>>
\* 'b \tb'
TextB == <<98, 32, 9, 98>>

\* The contents a submitted document may carry.
Contents == {TextA, TextA2, Undefined}

\* The contents handed to processDocument directly.
DirectContents == {TextA, TextA2, TextB, Undefined}

IsString(content) == content # Undefined

IsSpaceTab(c) == c \in {32, 9}

\* \s of a regular expression and the white space String.prototype.trim
\* strips: WhiteSpace and LineTerminator code units.
WhiteSpaceUnits ==
  {9, 10, 11, 12, 13, 32, 160, 5760, 8232, 8233, 8239, 8287, 12288, 65279} \cup (8192..8202)

IsWhiteSpace(c) == c \in WhiteSpaceUnits

\* .replace(/\r\n/g, '\n')
RECURSIVE NormalizeLineEndings(_)
NormalizeLineEndings(s) ==
  IF Len(s) = 0 THEN <<>>
  ELSE IF Len(s) >= 2 /\ s[1] = 13 /\ s[2] = 10
       THEN <<10>> \o NormalizeLineEndings(SubSeq(s, 3, Len(s)))
       ELSE <<s[1]>> \o NormalizeLineEndings(Tail(s))

\* .replace(/[ \t]+/g, ' ')
RECURSIVE CollapseSpaces(_)
CollapseSpaces(s) ==
  IF Len(s) = 0 THEN <<>>
  ELSE IF IsSpaceTab(s[1])
       THEN IF Len(s) >= 2 /\ IsSpaceTab(s[2])
            THEN CollapseSpaces(Tail(s))
            ELSE <<32>> \o CollapseSpaces(Tail(s))
       ELSE <<s[1]>> \o CollapseSpaces(Tail(s))

\* Length of the run of newlines that s starts with.
RECURSIVE NewlineRun(_)
NewlineRun(s) ==
  IF Len(s) > 0 /\ s[1] = 10 THEN 1 + NewlineRun(Tail(s)) ELSE 0

\* .replace(/\n{3,}/g, '\n\n')
RECURSIVE CollapseNewlines(_)
CollapseNewlines(s) ==
  IF Len(s) = 0 THEN <<>>
  ELSE LET n == NewlineRun(s) IN
       IF n >= 3 THEN <<10, 10>> \o CollapseNewlines(SubSeq(s, n + 1, Len(s)))
       ELSE IF n >= 1 THEN SubSeq(s, 1, n) \o CollapseNewlines(SubSeq(s, n + 1, Len(s)))
       ELSE <<s[1]>> \o CollapseNewlines(Tail(s))

RECURSIVE TrimStart(_)
TrimStart(s) ==
  IF Len(s) > 0 /\ IsWhiteSpace(s[1]) THEN TrimStart(Tail(s)) ELSE s

RECURSIVE TrimEnd(_)
TrimEnd(s) ==
  IF Len(s) > 0 /\ IsWhiteSpace(s[Len(s)]) THEN TrimEnd(SubSeq(s, 1, Len(s) - 1)) ELSE s

\* .trim()
Trim(s) == TrimEnd(TrimStart(s))

\* IntelligentDocumentProcessor.cleanContent, on a string.
cleanContent(content) ==
  Trim(CollapseNewlines(CollapseSpaces(NormalizeLineEndings(content))))

\* IntelligentDocumentProcessor.generateContentHash: the SHA-256 digest of the
\* content, collision-free on the texts of the model.
generateContentHash(content) == <<"sha256", content>>

\* The hashes of the cleaned texts of the model, and one of a text never processed.
ForeignHash == generateContentHash(<<122>>)
HashesOf(contents) == {generateContentHash(cleanContent(t)) : t \in contents \ {Undefined}}
Hashes == HashesOf(Contents)
DirectHashes == HashesOf(DirectContents) \cup {ForeignHash}


\* ------------------------------------------------------------- classifier

\* The keys of DocumentClassificationPatterns, in the order of their definition
\* (the order Object.keys and Object.entries follow).
DocumentTypes ==
  <<"laws", "royal_decrees", "regulations", "ministerial_decisions", "royal_orders", "fatwas",
    "judicial_principles", "judicial_criminal", "judicial_civil", "indexes", "templates",
    "others">>

\* DocumentClassificationPatterns[type].identifiers: each string as its UTF-16 code units.
identifiers(type) ==
  CASE type = "laws" ->
         << <<1602, 1575, 1606, 1608, 1606>>,  \* قانون
            <<1605, 1575, 1583, 1577>>,  \* مادة
            <<1576, 1575, 1576>>,  \* باب
            <<1601, 1589, 1604>>,  \* فصل
            <<1602, 1575, 1606, 1608, 1606, 32, 1575, 1604, 1593, 1605, 1604>>,  \* قانون العمل
            <<1602, 1575, 1606, 1608, 1606, 32, 1575, 1604, 1580, 1586, 1575, 1569>> >>  \* قانون الجزاء
    [] type = "royal_decrees" ->
         << <<1605, 1585, 1587, 1608, 1605, 32, 1587, 1604, 1591, 1575, 1606, 1610>>,  \* مرسوم سلطاني
            <<1606, 1581, 1606, 32, 1602, 1575, 1576, 1608, 1587>>,  \* نحن قابوس
            <<1606, 1581, 1606, 32, 1607, 1610, 1579, 1605>>,  \* نحن هيثم
            <<1587, 1604, 1591, 1575, 1606, 32, 1593, 1605, 1575, 1606>>,  \* سلطان عمان
            <<1589, 1583, 1585, 32, 1601, 1610>> >>  \* صدر في
    [] type = "regulations" ->
         << <<1575, 1604, 1604, 1575, 1574, 1581, 1577, 32, 1575, 1604, 1578, 1606, 1601, 1610,
              1584, 1610, 1577>>,  \* اللائحة التنفيذية
            <<1604, 1575, 1574, 1581, 1577>>,  \* لائحة
            <<1578, 1606, 1592, 1610, 1605>>,  \* تنظيم
            <<1590, 1608, 1575, 1576, 1591>>,  \* ضوابط
            <<1573, 1580, 1585, 1575, 1569, 1575, 1578>> >>  \* إجراءات
    [] type = "ministerial_decisions" ->
         << <<1602, 1585, 1575, 1585, 32, 1608, 1586, 1575, 1585, 1610>>,  \* قرار وزاري
            <<1575, 1604, 1608, 1586, 1610, 1585>>,  \* الوزير
            <<1602, 1585, 1575, 1585, 32, 1585, 1602, 1605>>,  \* قرار رقم
            <<1608, 1586, 1575, 1585, 1577>> >>  \* وزارة
    [] type = "royal_orders" ->
         << <<1571, 1605, 1585, 32, 1587, 1575, 1605>>,  \* أمر سام
            <<1571, 1605, 1585, 32, 1587, 1575, 1605, 1610>>,  \* أمر سامي
            <<1578, 1608, 1580, 1610, 1607, 32, 1587, 1575, 1605, 1610>>,  \* توجيه سامي
            <<1605, 1606, 1581, 32, 1608, 1587, 1575, 1605>>,  \* منح وسام
            <<1578, 1593, 1610, 1610, 1606>> >>  \* تعيين
    [] type = "fatwas" ->
         << <<1601, 1578, 1608, 1609>>,  \* فتوى
            <<1573, 1580, 1575, 1576, 1577>>,  \* إجابة
            <<1575, 1587, 1578, 1601, 1587, 1575, 1585>>,  \* استفسار
            <<1608, 1586, 1575, 1585, 1577, 32, 1575, 1604, 1593, 1583, 1604, 32, 1608, 1575,
              1604, 1588, 1572, 1608, 1606, 32, 1575, 1604, 1602, 1575, 1606, 1608, 1606, 1610,
              1577>>,  \* وزارة العدل والشؤون القانونية
            <<1583, 1575, 1585, 32, 1575, 1604, 1573, 1601, 1578, 1575, 1569>> >>  \* دار الإفتاء
    [] type = "judicial_principles" ->
         << <<1605, 1576, 1583, 1571, 32, 1602, 1590, 1575, 1574, 1610>>,  \* مبدأ قضائي
            <<1575, 1604, 1605, 1581, 1603, 1605, 1577, 32, 1575, 1604, 1593, 1604, 1610,
              1575>>,  \* المحكمة العليا
            <<1605, 1576, 1583, 1571>>,  \* مبدأ
            <<1602, 1590, 1610, 1577, 32, 1585, 1602, 1605>>,  \* قضية رقم
            <<1605, 1576, 1575, 1583, 1574, 32, 1602, 1590, 1575, 1574, 1610, 1577>> >>  \* مبادئ قضائية
    [] type = "judicial_criminal" ->
         << <<1575, 1604, 1583, 1575, 1574, 1585, 1577, 32, 1575, 1604, 1580, 1586, 1575, 1574,
              1610, 1577>>,  \* الدائرة الجزائية
            <<1581, 1603, 1605, 32, 1580, 1586, 1575, 1574, 1610>>,  \* حكم جزائي
            <<1580, 1606, 1575, 1610, 1577>>,  \* جناية
            <<1580, 1606, 1581, 1577>>,  \* جنحة
            <<1593, 1602, 1608, 1576, 1577>> >>  \* عقوبة
    [] type = "judicial_civil" ->
         << <<1575, 1604, 1583, 1575, 1574, 1585, 1577, 32, 1575, 1604, 1605, 1583, 1606, 1610,
              1577>>,  \* الدائرة المدنية
            <<1575, 1604, 1583, 1575, 1574, 1585, 1577, 32, 1575, 1604, 1578, 1580, 1575, 1585,
              1610, 1577>>,  \* الدائرة التجارية
            <<1581, 1603, 1605, 32, 1605, 1583, 1606, 1610>>,  \* حكم مدني
            <<1583, 1593, 1608, 1609, 32, 1605, 1583, 1606, 1610, 1577>>,  \* دعوى مدنية
            <<1593, 1602, 1583>> >>  \* عقد
    [] type = "indexes" ->
         << <<1601, 1607, 1585, 1587>>,  \* فهرس
            <<1583, 1604, 1610, 1604>>,  \* دليل
            <<1603, 1588, 1575, 1601>>,  \* كشاف
            <<1578, 1589, 1606, 1610, 1601>>,  \* تصنيف
            <<1601, 1607, 1585, 1587, 32, 1575, 1604, 1605, 1576, 1575, 1583, 1574>> >>  \* فهرس المبادئ
    [] type = "templates" ->
         << <<1606, 1605, 1608, 1584, 1580>>,  \* نموذج
            <<1589, 1610, 1594, 1577>>,  \* صيغة
            <<1575, 1587, 1578, 1605, 1575, 1585, 1577>>,  \* استمارة
            <<1578, 1608, 1603, 1610, 1604>>,  \* توكيل
            <<1593, 1602, 1583, 32, 1606, 1605, 1608, 1584, 1580, 1610>> >>  \* عقد نموذجي
    [] type = "others" ->
         << <<1608, 1579, 1610, 1602, 1577>>,  \* وثيقة
            <<1603, 1578, 1575, 1576>>,  \* كتاب
            <<1578, 1602, 1585, 1610, 1585>>,  \* تقرير
            <<1583, 1585, 1575, 1587, 1577>> >>  \* دراسة

\* DocumentClassificationPatterns[type].structure: each string as its UTF-16 code units.
structure(type) ==
  CASE type = "laws" ->
         << <<1575, 1604, 1605, 1575, 1583, 1577>>,  \* المادة
            <<1575, 1604, 1576, 1575, 1576>>,  \* الباب
            <<1575, 1604, 1601, 1589, 1604>>,  \* الفصل
            <<1602, 1575, 1606, 1608, 1606, 32, 1585, 1602, 1605>> >>  \* قانون رقم
    [] type = "royal_decrees" ->
         << <<1605, 1585, 1587, 1608, 1605, 32, 1587, 1604, 1591, 1575, 1606, 1610, 32, 1585,
              1602, 1605>>,  \* مرسوم سلطاني رقم
            <<1606, 1581, 1606>>,  \* نحن
            <<1589, 1583, 1585, 32, 1601, 1610>> >>  \* صدر في
    [] type = "regulations" ->
         << <<1575, 1604, 1604, 1575, 1574, 1581, 1577, 32, 1575, 1604, 1578, 1606, 1601, 1610,
              1584, 1610, 1577, 32, 1604, 1602, 1575, 1606, 1608, 1606>>,  \* اللائحة التنفيذية لقانون
            <<1575, 1604, 1605, 1575, 1583, 1577>>,  \* المادة
            <<1575, 1604, 1571, 1581, 1603, 1575, 1605>> >>  \* الأحكام
    [] type = "ministerial_decisions" ->
         << <<1602, 1585, 1575, 1585, 32, 1608, 1586, 1575, 1585, 1610, 32, 1585, 1602, 1605>>,  \* قرار وزاري رقم
            <<1575, 1604, 1608, 1586, 1610, 1585>>,  \* الوزير
            <<1575, 1604, 1605, 1575, 1583, 1577>> >>  \* المادة
    [] type = "royal_orders" ->
         << <<1571, 1605, 1585, 32, 1587, 1575, 1605, 32, 1576, 1600>>,  \* أمر سام بـ
            <<1580, 1604, 1575, 1604, 1577, 32, 1575, 1604, 1587, 1604, 1591, 1575, 1606>>,  \* جلالة السلطان
            <<1605, 1606, 1581>> >>  \* منح
    [] type = "fatwas" ->
         << <<1585, 1602, 1605, 32, 1575, 1604, 1601, 1578, 1608, 1609>>,  \* رقم الفتوى
            <<1575, 1604, 1587, 1572, 1575, 1604>>,  \* السؤال
            <<1575, 1604, 1580, 1608, 1575, 1576>>,  \* الجواب
            <<1575, 1604, 1571, 1587, 1575, 1587, 32, 1575, 1604, 1602, 1575, 1606, 1608, 1606,
              1610>> >>  \* الأساس القانوني
    [] type = "judicial_principles" ->
         << <<1605, 1576, 1583, 1571, 32, 1585, 1602, 1605>>,  \* مبدأ رقم
            <<1602, 1590, 1610, 1577, 32, 1585, 1602, 1605>>,  \* قضية رقم
            <<1575, 1604, 1605, 1581, 1603, 1605, 1577, 32, 1575, 1604, 1593, 1604, 1610,
              1575>> >>  \* المحكمة العليا
    [] type = "judicial_criminal" ->
         << <<1575, 1604, 1583, 1575, 1574, 1585, 1577, 32, 1575, 1604, 1580, 1586, 1575, 1574,
              1610, 1577>>,  \* الدائرة الجزائية
            <<1581, 1603, 1605, 32, 1585, 1602, 1605>>,  \* حكم رقم
            <<1575, 1604, 1578, 1607, 1605, 1577>>,  \* التهمة
            <<1575, 1604, 1593, 1602, 1608, 1576, 1577>> >>  \* العقوبة
    [] type = "judicial_civil" ->
         << <<1575, 1604, 1583, 1575, 1574, 1585, 1577, 32, 1575, 1604, 1605, 1583, 1606, 1610,
              1577>>,  \* الدائرة المدنية
            <<1581, 1603, 1605, 32, 1585, 1602, 1605>>,  \* حكم رقم
            <<1575, 1604, 1581, 1603, 1605>>,  \* الحكم
            <<1575, 1604, 1605, 1576, 1583, 1571>> >>  \* المبدأ
    [] type = "indexes" ->
         << <<1601, 1607, 1585, 1587>>,  \* فهرس
            <<1575, 1604, 1585, 1602, 1605>>,  \* الرقم
            <<1575, 1604, 1605, 1608, 1590, 1608, 1593>>,  \* الموضوع
            <<1575, 1604, 1589, 1601, 1581, 1577>> >>  \* الصفحة
    [] type = "templates" ->
         << <<1606, 1605, 1608, 1584, 1580, 32, 1585, 1602, 1605>>,  \* نموذج رقم
            <<1575, 1604, 1589, 1610, 1594, 1577>>,  \* الصيغة
            <<1575, 1604, 1578, 1608, 1602, 1610, 1593>> >>  \* التوقيع
    [] type = "others" ->
         << <<1575, 1604, 1593, 1606, 1608, 1575, 1606>>,  \* العنوان
            <<1575, 1604, 1605, 1581, 1578, 1608, 1609>>,  \* المحتوى
            <<1575, 1604, 1578, 1575, 1585, 1610, 1582>> >>  \* التاريخ
\* String.prototype.includes: s occurs in content as a run of code units.
includes(content, s) ==
  \E i \in 1..(Len(content) - Len(s) + 1) : SubSeq(content, i, i + Len(s) - 1) = s

\* Scores are kept in half points: an identifier found adds 1 (line 142), a
\* structure element found adds 0.5 (line 150).
IdentifierPoints == 2

\* Mutant of StructurePoints: a structure element found adds 1, as an
\* identifier does.
StructurePoints_Whole == IdentifierPoints

StructurePoints == 1

\* The strings of `list` that content includes, in the order of the list.
Found(content, list) == SelectSeq(list, LAMBDA s : includes(content, s))

\* scores[type] once the scoring loop is over: lines 139-154.
scores(content, type) ==
  LET foundIdentifiers == Found(content, identifiers(type))
      foundStructure == Found(content, structure(type))
  IN [score |-> IdentifierPoints * Len(foundIdentifiers) + StructurePoints * Len(foundStructure),
      patterns |-> foundIdentifiers \o foundStructure]

\* Mutant of InitialBest: the search starts from the first profile.
InitialBest_FirstProfile == [type |-> "laws", score |-> 0, patterns |-> <<>>]

\* let bestType = 'others'; let bestScore = 0; let bestPatterns = []
InitialBest == [type |-> "others", score |-> 0, patterns |-> <<>>]

\* Mutant of Better: a type that equals the best score replaces the best.
Better_OrEqual(score, bestScore) == score >= bestScore

\* if (data.score > bestScore)
Better(score, bestScore) == score > bestScore

\* The loop that finds the highest scoring type, from the i-th type on: lines
\* 160-166.
RECURSIVE FindBest(_, _, _)
FindBest(content, i, best) ==
  IF i > Len(DocumentTypes) THEN best
  ELSE LET data == scores(content, DocumentTypes[i])
       IN FindBest(content, i + 1,
                   IF Better(data.score, best.score)
                   THEN [type |-> DocumentTypes[i], score |-> data.score,
                         patterns |-> data.patterns]
                   ELSE best)

\* config.identifiers.length + config.structure.length * 0.5, in half points.
PossibleScore(type) ==
  IdentifierPoints * Len(identifiers(type)) + StructurePoints * Len(structure(type))

\* Math.max over the profiles: lines 168-172.
maxPossibleScore ==
  CHOOSE m \in {PossibleScore(DocumentTypes[i]) : i \in DOMAIN DocumentTypes} :
    \A i \in DOMAIN DocumentTypes : PossibleScore(DocumentTypes[i]) <= m

\* Mutant of confidence: the ratio is given as a percentage and not capped.
confidence_Percent(bestScore) == [num |-> 100 * bestScore, den |-> maxPossibleScore]

\* Math.min(bestScore / maxPossibleScore, 1.0), as the fraction num / den.
confidence(bestScore) ==
  IF bestScore > maxPossibleScore THEN [num |-> 1, den |-> 1]
  ELSE [num |-> bestScore, den |-> maxPossibleScore]

\* DocumentClassifier.classifyDocument(content)
classifyDocument(content) ==
  LET best == FindBest(content, 1, InitialBest)
  IN [type |-> best.type,
      confidence |-> confidence(best.score),
      matchedPatterns |-> best.patterns]

\* ------------------------------------------------------- text matching

\* \d and [0-9]
LatinDigits == 48..57
\* [٠-٩]
ArabicDigits == 1632..1641
\* [٠-٩0-9]
Digits == ArabicDigits \cup LatinDigits

\* The literal `lit` stands in text at position i (positions count from 1).
At(text, i, lit) ==
  /\ i >= 1
  /\ i + Len(lit) - 1 <= Len(text)
  /\ SubSeq(text, i, i + Len(lit) - 1) = lit

\* The first position from i on whose code unit is not in `class` (a greedy
\* class* consumed from i): Len(text) + 1 when the class runs to the end.
Skip(text, i, class) ==
  CHOOSE k \in i..(Len(text) + 1) :
    /\ \A m \in i..(k - 1) : text[m] \in class
    /\ k = Len(text) + 1 \/ text[k] \notin class

\* String.prototype.trim
trim(s) ==
  LET kept == {i \in DOMAIN s : s[i] \notin WhiteSpaceUnits} IN
  IF kept = {} THEN <<>>
  ELSE SubSeq(s, CHOOSE i \in kept : \A k \in kept : i <= k,
                 CHOOSE i \in kept : \A k \in kept : k <= i)

\* String.prototype.startsWith
startsWith(s, prefix) == At(s, 1, prefix)

\* المادة
ArticleWord == <<1575, 1604, 1605, 1575, 1583, 1577>>

\* السؤال, الجواب, الأساس القانوني
Question == <<1575, 1604, 1587, 1572, 1575, 1604>>
Answer == <<1575, 1604, 1580, 1608, 1575, 1576>>
LegalBasis == <<1575, 1604, 1571, 1587, 1575, 1587, 32, 1575, 1604, 1602, 1575, 1606, 1608, 1606, 1610>>

\* ----------------------------------------------------- category processors

\* The ocrConfidence argument when none is given (undefined); a confidence that
\* is given is in hundredths.
NoConfidence == -1

\* 0.95, in hundredths.
DefaultConfidence == 95

\* ocrConfidence || 0.95: undefined and 0 are falsy.
orDefault(ocrConfidence) ==
  IF ocrConfidence \in {NoConfidence, 0} THEN DefaultConfidence ELSE ocrConfidence

\* String.prototype.indexOf: positions count from 0, and -1 says that s does
\* not occur.
indexOf(content, s) ==
  LET found == {i \in 1..(Len(content) - Len(s) + 1) : At(content, i, s)}
  IN IF found = {} THEN -1 ELSE (CHOOSE i \in found : \A k \in found : i <= k) - 1

\* a || b || ... on numbers: the first operand that is not 0, or the last one.
RECURSIVE or(_)
or(operands) ==
  IF Len(operands) = 1 \/ operands[1] # 0 THEN operands[1] ELSE or(Tail(operands))

\* a || b on strings: the empty string is falsy.
orText(a, b) == IF Len(a) > 0 THEN a ELSE b

\* String.prototype.substring(start, end): both ends are clamped to the string
\* and swapped when start is the larger.
substring(s, start, end) ==
  LET Clamped(n) == IF n < 0 THEN 0 ELSE IF n > Len(s) THEN Len(s) ELSE n
      a == Clamped(start)
      b == Clamped(end)
  IN IF a <= b THEN SubSeq(s, a + 1, b) ELSE SubSeq(s, b + 1, a)

\* The first position from i on whose code unit is in `class` (a greedy
\* [^class]* consumed from i): Len(text) + 1 when there is none.
SkipTo(text, i, class) ==
  CHOOSE k \in i..(Len(text) + 1) :
    /\ \A m \in i..(k - 1) : text[m] \notin class
    /\ k = Len(text) + 1 \/ text[k] \in class

\* String.prototype.match with a global expression: ends[i] is the position of
\* the last code unit of the match that starts at i, 0 when none starts there.
\* The matches are taken from left to right, each search starting after the
\* match before it; no match is the empty list (`|| []`, `?.forEach`).
RECURSIVE matchAll(_, _, _)
matchAll(content, ends, i) ==
  IF i > Len(content) THEN <<>>
  ELSE IF ends[i] = 0 THEN matchAll(content, ends, i + 1)
  ELSE <<SubSeq(content, i, ends[i])>> \o matchAll(content, ends, ends[i] + 1)

\* Array.prototype.join
RECURSIVE join(_, _)
join(list, separator) ==
  IF Len(list) = 0 THEN <<>>
  ELSE IF Len(list) = 1 THEN list[1]
  ELSE list[1] \o separator \o join(Tail(list), separator)

\* FatwaProcessor.extractQuestion
extractQuestion(content) ==
  LET HowFar == <<1605, 1575, 32, 1605, 1583, 1609>>  \* ما مدى
      IsItAllowed == <<1607, 1604, 32, 1610, 1580, 1608, 1586>>  \* هل يجوز
      NotAllowed == <<1604, 1575, 32, 1610, 1580, 1608, 1586>>  \* لا يجوز
      Allowed == <<1610, 1580, 1608, 1586>>  \* يجوز
      questionStart == or(<<indexOf(content, HowFar), indexOf(content, IsItAllowed),
                            indexOf(content, Question)>>)
      questionEnd == or(<<indexOf(content, Answer), indexOf(content, NotAllowed),
                          indexOf(content, Allowed)>>)
  IN IF questionStart = -1 \/ questionEnd = -1 THEN <<>>
     ELSE trim(substring(content, questionStart, questionEnd))

\* FatwaProcessor.extractAnswer
extractAnswer(content) ==
  LET NotAllowed == <<1604, 1575, 32, 1610, 1580, 1608, 1586>>  \* لا يجوز
      Allowed == <<1610, 1580, 1608, 1586>>  \* يجوز
      TheLaw == <<1575, 1604, 1602, 1575, 1606, 1608, 1606>>  \* القانون
      answerStart == or(<<indexOf(content, NotAllowed), indexOf(content, Allowed),
                          indexOf(content, Answer)>>)
      nextSection == or(<<indexOf(content, ArticleWord), indexOf(content, TheLaw)>>)
  IN IF answerStart = -1 THEN <<>>
     ELSE trim(substring(content, answerStart,
                         IF nextSection # -1 THEN nextSection ELSE Len(content)))

\* The match of /المادة \d+|اللائحة التنفيذية|قانون \w+/ that starts at i: the
\* position of its last code unit, 0 when none starts there.
LegalBasisEnd(content, i) ==
  LET ExecutiveRegulation ==  \* اللائحة التنفيذية
        <<1575, 1604, 1604, 1575, 1574, 1581, 1577, 32, 1575, 1604, 1578, 1606, 1601, 1610,
          1584, 1610, 1577>>
      LawWord == <<1602, 1575, 1606, 1608, 1606>>  \* قانون
      WordUnits == LatinDigits \cup (65..90) \cup (97..122) \cup {95}  \* \w
      number == i + Len(ArticleWord) + 1
      word == i + Len(LawWord) + 1
  IN IF At(content, i, ArticleWord \o <<32>>) /\ Skip(content, number, LatinDigits) > number
     THEN Skip(content, number, LatinDigits) - 1
     ELSE IF At(content, i, ExecutiveRegulation) THEN i + Len(ExecutiveRegulation) - 1
     ELSE IF At(content, i, LawWord \o <<32>>) /\ Skip(content, word, WordUnits) > word
     THEN Skip(content, word, WordUnits) - 1
     ELSE 0

\* FatwaProcessor.extractLegalBasis
extractLegalBasis(content) ==
  matchAll(content, [i \in 1..Len(content) |-> LegalBasisEnd(content, i)], 1)

\* FatwaProcessor.formatFatwaContent:
\* `السؤال: ${question}\n\nالجواب: ${answer}\n\nالأساس القانوني: ${legalBasis.join(', ')}`
formatFatwaContent(question, answer, legalBasis) ==
  Question \o <<58, 32>> \o question
    \o <<10, 10>> \o Answer \o <<58, 32>> \o answer
    \o <<10, 10>> \o LegalBasis \o <<58, 32>> \o join(legalBasis, <<44, 32>>)

\* A DocumentChunk: its content and the ocr_confidence of its metadata.
Chunk(content, ocr_confidence) == [content |-> content, ocr_confidence |-> ocr_confidence]

\* One chunk for each text of the list, in its order.
ChunkEach(texts, ocr_confidence) == [i \in 1..Len(texts) |-> Chunk(texts[i], ocr_confidence)]

\* What a processor returns: the chunks and the ocrConfidence of the document
\* metadata.
Processed(chunks, ocrConfidence) ==
  [chunks |-> chunks, metadata |-> [ocrConfidence |-> ocrConfidence]]

\* FatwaProcessor.process
FatwaProcessor(content, ocrConfidence) ==
  Processed(<<Chunk(formatFatwaContent(extractQuestion(content), extractAnswer(content),
                                       extractLegalBasis(content)),
                    orDefault(ocrConfidence))>>,
            ocrConfidence)

\* The match of /head\s+\d+[^:]*:([^excluded]*)/ that starts at i: the position
\* of its last code unit, 0 when none starts there.  `heads` are the
\* alternatives of the head; no two of them match at one position.
HeadedEnd(content, i, heads, excluded) ==
  LET matching == {head \in heads : At(content, i, head)}
  IN IF matching = {} THEN 0
     ELSE LET head == CHOOSE h \in matching : TRUE
              number == Skip(content, i + Len(head), WhiteSpaceUnits)
              rest == Skip(content, number, LatinDigits)
              colon == SkipTo(content, rest, {58})
          IN IF number > i + Len(head) /\ rest > number /\ colon <= Len(content)
             THEN SkipTo(content, colon + 1, excluded) - 1
             ELSE 0

\* The matches of /head\s+\d+[^:]*:([^excluded]*)/g, each as
\* match.replace(/head\s+\d+[^:]*:/, '').trim() or
\* match.replace(/^[^:]*:/, '').trim() leaves it: what follows its first colon,
\* trimmed.
headed(content, heads, excluded) ==
  LET matches == matchAll(content,
                          [i \in 1..Len(content) |-> HeadedEnd(content, i, heads, excluded)], 1)
  IN [i \in 1..Len(matches) |->
        trim(SubSeq(matches[i], indexOf(matches[i], <<58>>) + 2, Len(matches[i])))]

\* extractArticles of LawProcessor, RoyalDecreeProcessor,
\* MinisterialDecisionProcessor and RegulationProcessor, the text of each
\* article: /المادة\s+(\d+)[^:]*:([^المادة]*)/g, where [^المادة] leaves out the
\* code units of the letters ا ل م د ة.
extractArticles(content) ==
  headed(content, {ArticleWord}, {1575, 1577, 1583, 1604, 1605})

\* LawProcessor.process
LawProcessor(content, ocrConfidence) ==
  Processed(ChunkEach(extractArticles(content), ocrConfidence), ocrConfidence)

\* One chunk for each text when there is any, else one chunk with the whole
\* content.
EachOrWhole(texts, content, ocrConfidence) ==
  Processed(IF Len(texts) > 0 THEN ChunkEach(texts, ocrConfidence)
            ELSE <<Chunk(content, ocrConfidence)>>,
            ocrConfidence)

\* RoyalOrderProcessor.extractOrderContent: /نأمر بما يلي[:\s]*([^]*)/
extractOrderContent(content) ==
  LET OrderOpening ==  \* نأمر بما يلي
        <<1606, 1571, 1605, 1585, 32, 1576, 1605, 1575, 32, 1610, 1604, 1610>>
      at == indexOf(content, OrderOpening)
  IN IF at = -1 THEN <<>>
     ELSE trim(SubSeq(content,
                      Skip(content, at + 1 + Len(OrderOpening), WhiteSpaceUnits \cup {58}),
                      Len(content)))

\* JudicialPrincipleProcessor.extractLegalPrinciple:
\* /المبدأ[:\s]+([^]*?)(?=الأساس القانوني|$)/
extractLegalPrinciple(content) ==
  LET PrincipleWord == <<1575, 1604, 1605, 1576, 1583, 1571>>  \* المبدأ
      After(i) == Skip(content, i + Len(PrincipleWord), WhiteSpaceUnits \cup {58})
      starts == {i \in 1..Len(content) :
                   At(content, i, PrincipleWord) /\ After(i) > i + Len(PrincipleWord)}
  IN IF starts = {} THEN <<>>
     ELSE LET from == After(CHOOSE i \in starts : \A k \in starts : i <= k)
              stops == {k \in from..Len(content) : At(content, k, LegalBasis)}
              to == IF stops = {} THEN Len(content)
                    ELSE (CHOOSE k \in stops : \A m \in stops : k <= m) - 1
          IN trim(SubSeq(content, from, to))

\* The match of /([^،\n]+)\s+\.{2,}\s*(\d+)/ that starts at i: the position of
\* its last code unit, 0 when none starts there.  The title takes as much as
\* it can and gives back until the rest matches.
IndexEntryEnd(content, i) ==
  LET PageReferenceEnd(k) ==  \* \s+\.{2,}\s*(\d+) from k
        LET dots == Skip(content, k, WhiteSpaceUnits)
            space == Skip(content, dots, {46})
            digits == Skip(content, space, WhiteSpaceUnits)
            end == Skip(content, digits, LatinDigits)
        IN IF dots > k /\ space >= dots + 2 /\ end > digits THEN end - 1 ELSE 0
  IN IF content[i] \in {1548, 10} THEN 0
     ELSE LET last == SkipTo(content, i, {1548, 10}) - 1
              cuts == {k \in i..last : PageReferenceEnd(k + 1) # 0}
          IN IF cuts = {} THEN 0
             ELSE PageReferenceEnd((CHOOSE k \in cuts : \A m \in cuts : m <= k) + 1)

\* IndexProcessor.extractIndexEntries, the content (the title) of each entry:
\* a match is an entry when split(/\.{2,}/) cuts it in two, that is when it
\* holds one run of two or more dots.
extractIndexEntries(content) ==
  LET DotRuns(s) == {i \in 1..Len(s) : At(s, i, <<46, 46>>) /\ (i = 1 \/ s[i - 1] # 46)}
      matches == matchAll(content,
                          [i \in 1..Len(content) |-> IndexEntryEnd(content, i)], 1)
      entries == SelectSeq(matches, LAMBDA match : Cardinality(DotRuns(match)) = 1)
  IN [i \in 1..Len(entries) |->
        trim(SubSeq(entries[i], 1, (CHOOSE k \in DotRuns(entries[i]) : TRUE) - 1))]

\* TemplateProcessor.extractSections, the content of each section:
\* /(البند|الفقرة|القسم)\s+\d+[^:]*:([^(البند|الفقرة|القسم)]*)/g, where the
\* class leaves out the code units of ( ) | and of the letters of the three
\* words.
extractSections(content) ==
  headed(content,
         {<<1575, 1604, 1576, 1606, 1583>>,  \* البند
          <<1575, 1604, 1601, 1602, 1585, 1577>>,  \* الفقرة
          <<1575, 1604, 1602, 1587, 1605>>},  \* القسم
         {40, 41, 124, 1575, 1576, 1577, 1583, 1585, 1587, 1601, 1602, 1604, 1605, 1606})

\* OtherProcessor.process
OtherProcessor(content, ocrConfidence) ==
  Processed(<<Chunk(content, ocrConfidence)>>, ocrConfidence)

\* getProcessorForType(type).process(content, ocrConfidence): FatwaProcessor,
\* LawProcessor, RoyalDecreeProcessor, JudicialCivilProcessor,
\* JudicialCriminalProcessor, MinisterialDecisionProcessor, RegulationProcessor,
\* RoyalOrderProcessor, JudicialPrincipleProcessor, IndexProcessor,
\* TemplateProcessor and OtherProcessor, in the order of the switch.
process(type, content, ocrConfidence) ==
  CASE type = "fatwas" -> FatwaProcessor(content, ocrConfidence)
    [] type = "laws" -> LawProcessor(content, ocrConfidence)
    [] type = "royal_decrees" -> EachOrWhole(extractArticles(content), content, ocrConfidence)
    [] type = "judicial_civil" -> Processed(<<Chunk(content, ocrConfidence)>>, ocrConfidence)
    [] type = "judicial_criminal" -> Processed(<<Chunk(content, ocrConfidence)>>, ocrConfidence)
    [] type = "ministerial_decisions" ->
         EachOrWhole(extractArticles(content), content, ocrConfidence)
    [] type = "regulations" -> EachOrWhole(extractArticles(content), content, ocrConfidence)
    [] type = "royal_orders" ->
         Processed(<<Chunk(orText(extractOrderContent(content), content), ocrConfidence)>>,
                   ocrConfidence)
    [] type = "judicial_principles" ->
         Processed(<<Chunk(orText(extractLegalPrinciple(content), content), ocrConfidence)>>,
                   ocrConfidence)
    [] type = "indexes" -> EachOrWhole(extractIndexEntries(content), content, ocrConfidence)
    [] type = "templates" -> EachOrWhole(extractSections(content), content, ocrConfidence)
    [] OTHER -> OtherProcessor(content, ocrConfidence)

\* ------------------------------------------------------ processDocument

NoHash == <<>>

\* What a processDocument call has not produced yet.
NoOutcome == [kind |-> "none", contentHash |-> NoHash, stages |-> <<>>]

\* The steps processDocument runs after the registry check (lines 43-49):
\* classifyDocument, validateDocumentClassification, getProcessorForType and
\* the category processor's process (segmentation and extraction).
StagesAfterCheck == <<"classify", "validate", "process">>

\* What processDocument returns (lines 51-64): the type and the confidence of
\* the classifier, the chunks and the metadata of the processor of that type,
\* and the hash.
Result(cleanedContent, contentHash, ocrConfidence, stages) ==
  LET classificationResult == classifyDocument(cleanedContent)
      processedResult == process(classificationResult.type, cleanedContent, ocrConfidence)
  IN [kind |-> "result", contentHash |-> contentHash, stages |-> stages,
      classification |-> classificationResult.type,
      confidence |-> classificationResult.confidence,
      chunks |-> processedResult.chunks,
      metadata |-> processedResult.metadata]

\* Mutant of processDocument: the registry is looked up with the hash of the
\* text as given, not of the cleaned text.
processDocument_HashOfRawText(documentContent, existingHashes, ocrConfidence) ==
  IF ~IsString(documentContent)
  THEN [kind |-> "TypeError", contentHash |-> NoHash, stages |-> <<>>]
  ELSE LET contentHash == generateContentHash(cleanContent(documentContent))
       IN IF generateContentHash(documentContent) \in existingHashes
          THEN [kind |-> "DuplicateDocumentError", contentHash |-> contentHash,
                stages |-> <<"clean", "hash", "check">>]
          ELSE Result(cleanContent(documentContent), contentHash, ocrConfidence,
                      <<"clean", "hash", "check">> \o StagesAfterCheck)

\* Mutant of processDocument: the registry is looked up after classification.
processDocument_CheckAfterClassify(documentContent, existingHashes, ocrConfidence) ==
  IF ~IsString(documentContent)
  THEN [kind |-> "TypeError", contentHash |-> NoHash, stages |-> <<>>]
  ELSE LET contentHash == generateContentHash(cleanContent(documentContent))
       IN IF contentHash \in existingHashes
          THEN [kind |-> "DuplicateDocumentError", contentHash |-> contentHash,
                stages |-> <<"clean", "hash", "classify", "validate", "check">>]
          ELSE Result(cleanContent(documentContent), contentHash, ocrConfidence,
                      <<"clean", "hash", "classify", "validate", "check", "process">>)

\* IntelligentDocumentProcessor.processDocument.  It is an async function with a
\* single await, on a processor that itself never waits, so the whole body runs
\* at the call and only the settlement of its promise is deferred.  The outcome
\* is the result (kind "result"), or the error the promise is rejected with;
\* `stages` lists the steps that ran; existingHashesAfter is the registry as the
\* call leaves it.
processDocument(documentContent, existingHashes, ocrConfidence) ==
  IF ~IsString(documentContent)
  THEN [kind |-> "TypeError", contentHash |-> NoHash, stages |-> <<>>]
  ELSE LET cleanedContent == cleanContent(documentContent)
           contentHash == generateContentHash(cleanedContent)
       IN IF contentHash \in existingHashes
          THEN [kind |-> "DuplicateDocumentError", contentHash |-> contentHash,
                stages |-> <<"clean", "hash", "check">>]
          ELSE Result(cleanedContent, contentHash, ocrConfidence,
                      <<"clean", "hash", "check">> \o StagesAfterCheck)

\* Mutant of existingHashesAfter: processDocument adds the hash it computed to
\* the set it was given.
existingHashesAfter_Added(documentContent, existingHashes) ==
  IF IsString(documentContent)
  THEN existingHashes \cup {generateContentHash(cleanContent(documentContent))}
  ELSE existingHashes

\* The set processDocument was given, as the call leaves it: the body uses it
\* once, in existingHashes.has(contentHash) at line 39.
existingHashesAfter(documentContent, existingHashes) == existingHashes

\* ------------------------------------------------------------------ state

VARIABLES
  processedHashes,   \* DocumentProcessingManager.processedHashes
  processingQueue,   \* DocumentProcessingManager.processingQueue, as job ids
  isProcessing,      \* DocumentProcessingManager.isProcessing
  progressCallback,  \* the callback given to the constructor: "none" or "given"
  jobs,              \* every ProcessingJob object created so far, by id
  pc,                \* where the processQueue run stands: idle, awaitDocument, delay
  job,               \* processQueue's local `job` while its document is awaited
  results,           \* processQueue's local `results`
  awaited,           \* the outcome the awaited processDocument promise settles with
  runStart,          \* the queue as the run in progress found it
  enqueuedInRun,     \* whether addDocumentsToQueue was called during the run in progress
  lastCall,          \* the step just taken: the operation and the error it threw
  returned,          \* the step just taken: what processQueue returned, if it returned
  lastProgress,      \* the progress object last handed to the callback
  existingHashes,    \* a caller's own registry, for direct processDocument calls
  calls,             \* the direct processDocument calls made: text, registry and outcome
  input,             \* the arguments of a call of one of the pure functions
  output             \* what that call returned, once it has been made

managerVars == <<processedHashes, processingQueue, isProcessing, progressCallback, jobs,
                 pc, job, results, awaited, runStart, enqueuedInRun, lastCall, returned,
                 lastProgress>>
directVars == <<existingHashes, calls>>
pureVars == <<input, output>>
vars == <<managerVars, directVars, pureVars>>

\* No call of a pure function is made; the call made has not returned yet.
NoInput == [fn |-> "none"]
NoOutput == [done |-> FALSE]
NoPureCall == input = NoInput /\ output = NoOutput

\* The call made has returned v.
Value(v) == [done |-> TRUE, value |-> v]

\* The documents submitted (DocumentInput; ocrConfidence and priority are
\* optional).
DocumentInputs ==
  { [content |-> TextA, ocrConfidence |-> 0, priority |-> "high"],
    [content |-> TextA2, ocrConfidence |-> NoConfidence, priority |-> "absent"],
    [content |-> Undefined, ocrConfidence |-> NoConfidence, priority |-> "low"] }

EmptyResults == [successful |-> <<>>, failed |-> <<>>, duplicates |-> <<>>, totalProcessed |-> 0]

\* No processQueue call returned in the step just taken.
NotReturned == [done |-> FALSE, results |-> EmptyResults, queue |-> <<>>, enqueued |-> FALSE]

Terminal == {"completed", "failed"}

\* ---------------------------------------------------------------- progress


\* const avgTimePerJob = 5000
avgTimePerJob == 5000

CountStatus(queue, js, status) == Cardinality({i \in DOMAIN queue : js[queue[i]].status = status})

\* DocumentProcessingManager.getStatus: every count is taken over the queue.
getStatus(queue, js, busy, hashes) ==
  LET pending == CountStatus(queue, js, "pending")
      processing == CountStatus(queue, js, "processing")
      completed == CountStatus(queue, js, "completed")
      failed == CountStatus(queue, js, "failed")
  IN [isProcessing |-> busy,
      totalJobs |-> Len(queue) + completed + failed,
      pending |-> pending,
      processing |-> processing,
      completed |-> completed,
      failed |-> failed,
      duplicatesSkipped |-> Cardinality(hashes)]

\* Math.round(n / d * 100)
RoundPercent(n, d) == (200 * n + d) \div (2 * d)

\* DocumentProcessingManager.estimateTimeRemaining, in milliseconds; -1 stands
\* for the "undetermined" text returned when no queued job is processing.
estimateTimeRemaining(queue, js) ==
  IF CountStatus(queue, js, "processing") = 0 THEN -1
  ELSE CountStatus(queue, js, "pending") * avgTimePerJob

\* The ProcessingProgress object updateProgress builds.
Progress(queue, js, busy, hashes) ==
  LET status == getStatus(queue, js, busy, hashes) IN
  [status |-> status,
   percentage |-> IF status.totalJobs > 0
                  THEN RoundPercent(status.completed + status.failed, status.totalJobs)
                  ELSE 0,
   currentJob |-> LET at == {i \in DOMAIN queue : js[queue[i]].status = "processing"}
                  IN IF at = {} THEN 0
                     ELSE queue[CHOOSE i \in at : \A k \in at : i <= k],
   estimatedTimeRemaining |-> estimateTimeRemaining(queue, js)]

\* What a call of the progress callback may do.
CallbackOutcomes == IF progressCallback = "given" THEN {"return", "throw"} ELSE {"return"}

\* DocumentProcessingManager.updateProgress: the callback, when there is one, is
\* handed the progress of the state given; the value is the new lastProgress.
updateProgress(queue, js, busy, hashes) ==
  IF progressCallback = "none" THEN lastProgress
  ELSE <<Progress(queue, js, busy, hashes)>>


\* ------------------------------------------------------------- the queue

\* const priorityOrder = { high: 3, normal: 2, low: 1 }
priorityOrder(priority) == CASE priority = "high" -> 3 [] priority = "normal" -> 2 [] OTHER -> 1

\* The comparator of sortQueueByPriority: negative when a sorts before b.
compare(js, a, b) == priorityOrder(js[b].priority) - priorityOrder(js[a].priority)

\* Array.prototype.sort is stable: an element moves ahead of exactly those
\* the comparator puts strictly after it.
RECURSIVE InsertStable(_, _, _)
InsertStable(js, sorted, j) ==
  IF Len(sorted) = 0 THEN <<j>>
  ELSE IF compare(js, sorted[Len(sorted)], j) > 0
       THEN Append(InsertStable(js, SubSeq(sorted, 1, Len(sorted) - 1), j), sorted[Len(sorted)])
       ELSE Append(sorted, j)

\* DocumentProcessingManager.sortQueueByPriority
RECURSIVE sortQueueByPriority(_, _)
sortQueueByPriority(js, queue) ==
  IF Len(queue) = 0 THEN <<>>
  ELSE InsertStable(js, sortQueueByPriority(js, SubSeq(queue, 1, Len(queue) - 1)), queue[Len(queue)])

\* priority: doc.priority || 'normal'
JobPriority(doc) == IF doc.priority = "absent" THEN "normal" ELSE doc.priority

\* The ProcessingJob object addDocumentsToQueue builds for a document.
NewJob(doc) ==
  [input |-> doc, status |-> "pending", priority |-> JobPriority(doc),
   result |-> NoOutcome, error |-> "none"]

\* Mutant of TakenStatus: the job shifted off the queue is left pending.
TakenStatus_LeftPending == "pending"

\* The status a job is given when it is shifted off the queue: line 65.
TakenStatus == "processing"

\* ---------------------------------------------------------------- actions

InitManager ==
  /\ processedHashes = {}
  /\ processingQueue = <<>>
  /\ isProcessing = FALSE
  /\ jobs = <<>>
  /\ pc = "idle"
  /\ job = 0
  /\ results = EmptyResults
  /\ awaited = NoOutcome
  /\ runStart = <<>>
  /\ enqueuedInRun = FALSE
  /\ lastCall = [op |-> "constructor", error |-> "none"]
  /\ returned = NotReturned
  /\ lastProgress = <<>>

Init ==
  /\ InitManager
  /\ progressCallback \in {"none", "given"}
  /\ existingHashes = {}
  /\ calls = <<>>
  /\ NoPureCall

\* The error a call ends with when the progress callback did this.
CallbackError(cb) == IF cb = "throw" THEN "callback" ELSE "none"

\* Mutant of Admitted: the new jobs are pushed and the queue is not sorted.
Admitted_Unsorted(js, queue, ids) == queue \o ids

\* The queue after addDocumentsToQueue has pushed the jobs `ids`: lines 31-36.
Admitted(js, queue, ids) == sortQueueByPriority(js, queue \o ids)

\* addDocumentsToQueue(documents): one job per document is pushed, the queue is
\* sorted and the progress reported.
addDocumentsToQueue(documents) ==
  LET n == Len(jobs)
      js == jobs \o [i \in 1..Len(documents) |-> NewJob(documents[i])]
      queue == Admitted(js, processingQueue, [i \in 1..Len(documents) |-> n + i])
  IN /\ Len(jobs) + Len(documents) <= MaxJobs
     /\ jobs' = js
     /\ processingQueue' = queue
     /\ enqueuedInRun' = (isProcessing \/ enqueuedInRun)
     /\ lastProgress' = updateProgress(queue, js, isProcessing, processedHashes)
     /\ \E cb \in CallbackOutcomes :
          lastCall' = [op |-> "addDocumentsToQueue", error |-> CallbackError(cb)]
     /\ returned' = NotReturned
     /\ UNCHANGED <<processedHashes, isProcessing, progressCallback, pc, job, results,
                    awaited, runStart, directVars, pureVars>>

\* The `finally` of processQueue and the end of the call.
EndRun ==
  /\ isProcessing' = FALSE
  /\ pc' = "idle"
  /\ job' = 0
  /\ awaited' = NoOutcome
  /\ results' = EmptyResults
  /\ runStart' = <<>>
  /\ enqueuedInRun' = FALSE

\* The loop of processQueue from its test to `await processDocument(...)`
\* (lines 63-75), in the step `op` of the run in progress.  `res` is the value
\* of the local `results`, `start` the queue the run began with.
LoopFromTest(op, res, start, enqueued) ==
  IF processingQueue = <<>>
  THEN /\ EndRun
       /\ lastCall' = [op |-> op, error |-> "none"]
       /\ returned' = [done |-> TRUE, results |-> res, queue |-> start, enqueued |-> enqueued]
       /\ UNCHANGED <<processedHashes, processingQueue, jobs, lastProgress>>
  ELSE LET j == Head(processingQueue)
           queue == Tail(processingQueue)
           js == [jobs EXCEPT ![j].status = TakenStatus]
       IN /\ processingQueue' = queue
          /\ jobs' = js
          /\ lastProgress' = updateProgress(queue, js, TRUE, processedHashes)
          /\ returned' = NotReturned
          /\ \E cb \in CallbackOutcomes :
               /\ lastCall' = [op |-> op, error |-> CallbackError(cb)]
               /\ IF cb = "throw"
                  THEN EndRun /\ UNCHANGED processedHashes
                  ELSE /\ isProcessing' = TRUE
                       /\ pc' = "awaitDocument"
                       /\ job' = j
                       /\ awaited' = processDocument(jobs[j].input.content, processedHashes,
                                                   jobs[j].input.ocrConfidence)
                       /\ processedHashes' =
                            existingHashesAfter(jobs[j].input.content, processedHashes)
                       /\ results' = res
                       /\ runStart' = start
                       /\ enqueuedInRun' = enqueued

\* Mutant of processQueue: the rejected call also runs the `finally` and
\* clears isProcessing.
processQueue_RejectedClearsBusy ==
  IF isProcessing
  THEN /\ isProcessing' = FALSE
       /\ lastCall' = [op |-> "processQueue", error |-> "already processing"]
       /\ returned' = NotReturned
       /\ UNCHANGED <<processedHashes, processingQueue, progressCallback, jobs,
                      pc, job, results, awaited, runStart, enqueuedInRun, lastProgress,
                      directVars, pureVars>>
  ELSE /\ LoopFromTest("processQueue", EmptyResults, processingQueue, FALSE)
       /\ UNCHANGED <<progressCallback, directVars, pureVars>>

\* processQueue(): rejected while a run is active, else the run starts and goes
\* on to its first await, or to its end when the queue is empty.
processQueue ==
  IF isProcessing
  THEN /\ lastCall' = [op |-> "processQueue", error |-> "already processing"]
       /\ returned' = NotReturned
       /\ UNCHANGED <<processedHashes, processingQueue, isProcessing, progressCallback, jobs,
                      pc, job, results, awaited, runStart, enqueuedInRun, lastProgress,
                      directVars, pureVars>>
  ELSE /\ LoopFromTest("processQueue", EmptyResults, processingQueue, FALSE)
       /\ UNCHANGED <<progressCallback, directVars, pureVars>>

\* The results with the job added to the list its outcome belongs to: lines
\* 84-91 and 98-111.
Listed(res, j, outcome) ==
  CASE outcome.kind = "result" ->
         [res EXCEPT !.successful = Append(@, [jobId |-> j,
                                               classification |-> outcome.classification,
                                               chunksCount |-> Len(outcome.chunks),
                                               contentHash |-> outcome.contentHash])]
    [] outcome.kind = "DuplicateDocumentError" ->
         [res EXCEPT !.duplicates = Append(@, [jobId |-> j])]
    [] OTHER ->
         [res EXCEPT !.failed = Append(@, [jobId |-> j, originalError |-> outcome.kind])]

\* Mutant of Counted: only a successful job is counted.
Counted_OnlySuccess(res, outcome) ==
  IF outcome.kind = "result" THEN [res EXCEPT !.totalProcessed = @ + 1] ELSE res

\* results.totalProcessed++ (line 114), whatever the outcome was.
Counted(res, outcome) == [res EXCEPT !.totalProcessed = @ + 1]

\* Mutant of Registered: the hash carried by the outcome is added whether the
\* call succeeded or failed.
Registered_OnAnyOutcome(hashes, outcome) == hashes \cup {outcome.contentHash}

\* The registry after the awaited call has settled: line 78.
Registered(hashes, outcome) ==
  IF outcome.kind = "result" THEN hashes \cup {outcome.contentHash} ELSE hashes

\* The job object after the awaited call has settled: lines 80-82 and 94-96.
Settle(js, j, outcome) ==
  IF outcome.kind = "result"
  THEN [js EXCEPT ![j].status = "completed", ![j].result = outcome]
  ELSE [js EXCEPT ![j].status = "failed", ![j].error = outcome.kind]

\* The run resumes with the outcome of processDocument: lines 76-118, up to
\* `await this.delay(100)`.
Resume ==
  /\ pc = "awaitDocument"
  /\ LET js == Settle(jobs, job, awaited)
         hashes == Registered(processedHashes, awaited)
     IN /\ processedHashes' = hashes
        /\ jobs' = js
        /\ lastProgress' = updateProgress(processingQueue, js, TRUE, hashes)
        /\ returned' = NotReturned
        /\ \E cb \in CallbackOutcomes :
             /\ lastCall' = [op |-> "resume", error |-> CallbackError(cb)]
             /\ IF cb = "throw"
                THEN EndRun
                ELSE /\ pc' = "delay"
                     /\ results' = Counted(Listed(results, job, awaited), awaited)
                     /\ job' = 0
                     /\ awaited' = NoOutcome
                     /\ UNCHANGED <<isProcessing, runStart, enqueuedInRun>>
  /\ UNCHANGED <<processingQueue, progressCallback, directVars, pureVars>>

\* The delay is over: the loop tests the queue again.
AfterDelay ==
  /\ pc = "delay"
  /\ LoopFromTest("afterDelay", results, runStart, enqueuedInRun)
  /\ UNCHANGED <<progressCallback, directVars, pureVars>>

\* Mutant of clearQueue: the queue is emptied whether or not a run is active.
clearQueue_Unguarded ==
  /\ processingQueue' = <<>>
  /\ lastProgress' = updateProgress(<<>>, jobs, isProcessing, processedHashes)
  /\ \E cb \in CallbackOutcomes :
       lastCall' = [op |-> "clearQueue", error |-> CallbackError(cb)]
  /\ returned' = NotReturned
  /\ UNCHANGED <<processedHashes, isProcessing, progressCallback, jobs, pc, job,
                 results, awaited, runStart, enqueuedInRun, directVars, pureVars>>

\* clearQueue(): throws while a run is active, else empties the queue and
\* reports the progress.
clearQueue ==
  IF isProcessing
  THEN /\ lastCall' = [op |-> "clearQueue", error |-> "cannot clear while processing"]
       /\ returned' = NotReturned
       /\ UNCHANGED <<processedHashes, processingQueue, isProcessing, progressCallback, jobs,
                      pc, job, results, awaited, runStart, enqueuedInRun, lastProgress,
                      directVars, pureVars>>
  ELSE /\ processingQueue' = <<>>
       /\ lastProgress' = updateProgress(<<>>, jobs, isProcessing, processedHashes)
       /\ \E cb \in CallbackOutcomes :
            lastCall' = [op |-> "clearQueue", error |-> CallbackError(cb)]
       /\ returned' = NotReturned
       /\ UNCHANGED <<processedHashes, isProcessing, progressCallback, jobs, pc, job,
                      results, awaited, runStart, enqueuedInRun, directVars, pureVars>>

\* The registry after resetProcessedHashes(): this.processedHashes.clear()
Cleared(hashes) == {}

resetProcessedHashes ==
  /\ processedHashes' = Cleared(processedHashes)
  /\ lastCall' = [op |-> "resetProcessedHashes", error |-> "none"]
  /\ returned' = NotReturned
  /\ UNCHANGED <<processingQueue, isProcessing, progressCallback, jobs, pc, job,
                 results, awaited, runStart, enqueuedInRun, lastProgress, directVars, pureVars>>

\* Mutant of Loaded: the hashes loaded replace the registry.
Loaded_Replacing(registry, hashes) == hashes

\* The registry after loadExistingHashes(hashes)
Loaded(registry, hashes) == registry \cup hashes

loadExistingHashes(hashes) ==
  /\ processedHashes' = Loaded(processedHashes, hashes)
  /\ lastCall' = [op |-> "loadExistingHashes", error |-> "none"]
  /\ returned' = NotReturned
  /\ UNCHANGED <<processingQueue, isProcessing, progressCallback, jobs, pc, job,
                 results, awaited, runStart, enqueuedInRun, lastProgress, directVars, pureVars>>

\* The batches one addDocumentsToQueue call may be given.
Batches == UNION {[1..n -> DocumentInputs] : n \in 1..MaxBatch}

\* The hash arrays one loadExistingHashes call may be given: the empty one, or
\* one with the hash of a text that may be submitted.
HashLoads == {{}} \cup {{h} : h \in Hashes}

Next ==
  \/ \E documents \in Batches : addDocumentsToQueue(documents)
  \/ processQueue
  \/ Resume
  \/ AfterDelay
  \/ clearQueue
  \/ resetProcessedHashes
  \/ \E hashes \in HashLoads : loadExistingHashes(hashes)

Spec == Init /\ [][Next]_vars


\* ------------------------------------------------- direct processDocument

\* A caller with a registry of its own calls processDocument(text, registry),
\* giving no ocrConfidence:
\* the call is recorded with the registry it was given, and the registry is as
\* the call leaves it.
callProcessDocument(documentContent) ==
  /\ Len(calls) < MaxCalls
  /\ calls' = Append(calls, [documentContent |-> documentContent,
                             existingHashes |-> existingHashes,
                             outcome |-> processDocument(documentContent, existingHashes,
                                                        NoConfidence)])
  /\ existingHashes' = existingHashesAfter(documentContent, existingHashes)
  /\ UNCHANGED <<managerVars, pureVars>>

\* The caller adds the contentHash a call has returned to its registry, as
\* processQueue does at line 78.
registerContentHash(i) ==
  /\ calls[i].outcome.kind = "result"
  /\ calls[i].outcome.contentHash \notin existingHashes
  /\ existingHashes' = Registered(existingHashes, calls[i].outcome)
  /\ UNCHANGED <<calls, managerVars, pureVars>>

InitDirect ==
  /\ InitManager
  /\ progressCallback = "none"
  /\ existingHashes \in SUBSET DirectHashes
  /\ calls = <<>>
  /\ NoPureCall

NextDirect ==
  \/ \E documentContent \in DirectContents : callProcessDocument(documentContent)
  \/ \E i \in DOMAIN calls : registerContentHash(i)

SpecDirect == InitDirect /\ [][NextDirect]_vars


\* ------------------------------------------------------ classifier calls

\* Texts of one call of classifyDocument: at most this many words.
MaxWords == 2

\* The words the texts are made of.
Words ==
  { <<1587, 1604, 1575, 1605>>,  \* سلام: no string of any profile
    <<1601, 1578, 1608, 1609>>,  \* فتوى: an identifier of fatwas only
    <<1608, 1586, 1575, 1585, 1577, 32, 1575, 1604, 1593, 1583, 1604, 32, 1608, 1575, 1604,
      1588, 1572, 1608, 1606, 32, 1575, 1604, 1602, 1575, 1606, 1608, 1606, 1610, 1577>>,  \* وزارة العدل والشؤون القانونية: an identifier of fatwas that includes one of laws and one of ministerial_decisions
    <<1575, 1604, 1605, 1575, 1583, 1577>>,  \* المادة: a structure element of three profiles that includes an identifier of laws
    <<1581, 1603, 1605, 32, 1585, 1602, 1605>>,  \* حكم رقم: a structure element of judicial_criminal and of judicial_civil
    <<1608, 1579, 1610, 1602, 1577>>,  \* وثيقة: an identifier of others
    <<1593, 1602, 1583>>,  \* عقد: an identifier of judicial_civil
    <<1606, 1605, 1608, 1584, 1580>>,  \* نموذج: an identifier of templates
    <<1608, 1579, 1610, 1602, 1577, 32, 1575, 1604, 1593, 1606, 1608, 1575, 1606, 32, 1608,
      1579, 1610, 1602, 1577>>,  \* وثيقة العنوان وثيقة: an identifier of others, twice, and one of its structure elements
    <<1575, 1604, 1593, 1606, 1608, 1575, 1606, 32, 1575, 1604, 1605, 1581, 1578, 1608, 1609,
      32, 1575, 1604, 1578, 1575, 1585, 1610, 1582>> }  \* العنوان المحتوى التاريخ: the three structure elements of others

\* The words of `ws`, separated by one space (code unit 32).
RECURSIVE Joined(_)
Joined(ws) ==
  IF Len(ws) = 0 THEN <<>>
  ELSE IF Len(ws) = 1 THEN ws[1]
  ELSE ws[1] \o <<32>> \o Joined(Tail(ws))

\* The texts given to classifyDocument: the empty text and every text of one
\* to MaxWords words.
ClassifierTexts == {Joined(ws) : ws \in UNION {[1..n -> Words] : n \in 0..MaxWords}}

\* A caller calls DocumentClassifier.classifyDocument(input.content).
callClassifyDocument ==
  /\ input.fn = "classifyDocument"
  /\ ~output.done
  /\ output' = Value(classifyDocument(input.content))
  /\ UNCHANGED <<input, managerVars, directVars>>

\* No manager operation and no direct processDocument call has been made.
Untouched ==
  /\ InitManager
  /\ progressCallback = "none"
  /\ existingHashes = {}
  /\ calls = <<>>

InitClassify ==
  /\ Untouched
  /\ input \in {[fn |-> "classifyDocument", content |-> t] : t \in ClassifierTexts}
  /\ output = NoOutput

NextClassify == callClassifyDocument

SpecClassify == InitClassify /\ [][NextClassify]_vars


\* ---------------------------------------------------------- cleanContent

\* Strings given to cleanContent: at most this many characters.
MaxLen == 5

\* The characters they are made of: a letter and the white space that
\* cleanContent treats.
CleanChars == {97, 32, 9, 13, 10}

CleanTexts == UNION {[1..n -> CleanChars] : n \in 0..MaxLen}

\* A caller cleans a text, and cleans the result again.
callCleanContent ==
  /\ input.fn = "cleanContent"
  /\ ~output.done
  /\ output' = Value([once |-> cleanContent(input.content),
                      twice |-> cleanContent(cleanContent(input.content))])
  /\ UNCHANGED <<input, managerVars, directVars>>

InitClean ==
  /\ Untouched
  /\ input \in {[fn |-> "cleanContent", content |-> t] : t \in CleanTexts}
  /\ output = NoOutput

NextClean == callCleanContent

SpecClean == InitClean /\ [][NextClean]_vars


\* --------------------------------------------------- rule-based chunking

\* word\s*\(\s*[٠-٩0-9]+\s*\) matches at position i.
ParenNumberAt(text, i, word) ==
  /\ At(text, i, word)
  /\ LET open == Skip(text, i + Len(word), WhiteSpaceUnits)
         first == Skip(text, open + 1, WhiteSpaceUnits)
         after == Skip(text, first, Digits)
         close == Skip(text, after, WhiteSpaceUnits)
     IN /\ open <= Len(text) /\ text[open] = 40
        /\ after > first
        /\ close <= Len(text) /\ text[close] = 41

\* word\s+[class]+ matches at position i.
SpacedNumberAt(text, i, word, class) ==
  /\ At(text, i, word)
  /\ LET first == Skip(text, i + Len(word), WhiteSpaceUnits)
     IN /\ first > i + Len(word)
        /\ first <= Len(text) /\ text[first] \in class

\* word\s+next matches at position i.
SpacedWordAt(text, i, word, next) ==
  /\ At(text, i, word)
  /\ LET first == Skip(text, i + Len(word), WhiteSpaceUnits)
     IN first > i + Len(word) /\ At(text, first, next)

\* [class]+\s*mark matches at position i.
NumberMarkAt(text, i, class, mark) ==
  /\ i <= Len(text) /\ text[i] \in class
  /\ LET after == Skip(text, i, class)
         at == Skip(text, after, WhiteSpaceUnits)
     IN at <= Len(text) /\ text[at] = mark

\* String.prototype.split with a lookahead (?=...): the string is cut before
\* every position of `points`; a lookahead that matches at the very start of
\* the string cuts nothing there.
RECURSIVE PiecesFrom(_, _, _)
PiecesFrom(text, start, points) ==
  LET later == {p \in points : p > start} IN
  IF later = {} THEN <<SubSeq(text, start, Len(text))>>
  ELSE LET next == CHOOSE p \in later : \A q \in later : p <= q
       IN <<SubSeq(text, start, next - 1)>> \o PiecesFrom(text, next, points)

splitBefore(text, points) == PiecesFrom(text, 1, points \ {1})

\* Where the match of \n\s*\n that starts at position i ends: the last line
\* feed of the white space that follows; 0 when there is no match at i.
ParagraphBreakEnd(text, i) ==
  IF i > Len(text) \/ text[i] # 10 THEN 0
  ELSE LET stop == Skip(text, i + 1, WhiteSpaceUnits)
           feeds == {k \in (i + 1)..(stop - 1) : text[k] = 10}
       IN IF feeds = {} THEN 0 ELSE CHOOSE k \in feeds : \A m \in feeds : m <= k

\* Where the match of [.!؟]\s+ that starts at position i ends; 0 when there is
\* no match at i.
SentenceBreakEnd(text, i) ==
  IF i >= Len(text) \/ text[i] \notin {46, 33, 1567} \/ text[i + 1] \notin WhiteSpaceUnits THEN 0
  ELSE Skip(text, i + 1, WhiteSpaceUnits) - 1

\* The end of the separator that starts at position i.
SeparatorEnd(separator, text, i) ==
  IF separator = "paragraph" THEN ParagraphBreakEnd(text, i) ELSE SentenceBreakEnd(text, i)

\* String.prototype.split with a separator that consumes text: the pieces
\* between the matches, found from left to right from position p on.
RECURSIVE splitOn(_, _, _)
splitOn(separator, text, p) ==
  LET found == {i \in p..Len(text) : SeparatorEnd(separator, text, i) > 0} IN
  IF found = {} THEN <<SubSeq(text, p, Len(text))>>
  ELSE LET q == CHOOSE i \in found : \A k \in found : i <= k
       IN <<SubSeq(text, p, q - 1)>> \o splitOn(separator, text, SeparatorEnd(separator, text, q) + 1)
\* الأولى | الثانية | الثالثة
Ordinals == {<<1575, 1604, 1571, 1608, 1604, 1609>>, <<1575, 1604, 1579, 1575, 1606, 1610, 1577>>, <<1575, 1604, 1579, 1575, 1604, 1579, 1577>>}

\* المادة\s+الأولى|المادة\s+الثانية|المادة\s+الثالثة
OrdinalArticleAt(text, i) == \E ordinal \in Ordinals : SpacedWordAt(text, i, ArticleWord, ordinal)

\* The lookahead of line 129.
LawArticleAt(text, i) ==
  \/ ParenNumberAt(text, i, ArticleWord)
  \/ SpacedNumberAt(text, i, ArticleWord, Digits)
  \/ OrdinalArticleAt(text, i)

\* The lookahead of line 179.
DecreeArticleAt(text, i) ==
  \/ SpacedNumberAt(text, i, ArticleWord, Digits)
  \/ OrdinalArticleAt(text, i)

\* The lookahead of line 200.
AgreementArticleAt(text, i) ==
  \/ ParenNumberAt(text, i, ArticleWord)
  \/ SpacedNumberAt(text, i, ArticleWord, Digits)

\* The lookahead of line 141: فتوى رقم|\d+\/\d+|السؤال\s*:
FatwaAt(text, i) ==
  \/ At(text, i, <<1601, 1578, 1608, 1609, 32, 1585, 1602, 1605>>)
  \/ /\ i <= Len(text) /\ text[i] \in LatinDigits
     /\ LET slash == Skip(text, i, LatinDigits)
        IN slash < Len(text) /\ text[slash] = 47 /\ text[slash + 1] \in LatinDigits
  \/ /\ At(text, i, Question)
     /\ LET colon == Skip(text, i + Len(Question), WhiteSpaceUnits)
        IN colon <= Len(text) /\ text[colon] = 58

\* The lookahead of line 152.
FatwaSectionAt(text, i) ==
  At(text, i, Question) \/ At(text, i, Answer) \/ At(text, i, LegalBasis)

\* The regular expression of line 171 matches at position i:
\* اتفاقيــــة|اتفاقية\s+تعــــاون|اتفاقية\s+تعاون|قانون\s+|نظام\s+
AgreementAt(text, i) ==
  \/ At(text, i, <<1575, 1578, 1601, 1575, 1602, 1610, 1600, 1600, 1600, 1600, 1577>>)
  \/ SpacedWordAt(text, i, <<1575, 1578, 1601, 1575, 1602, 1610, 1577>>, <<1578, 1593, 1600, 1600, 1600, 1600, 1575, 1608, 1606>>)
  \/ SpacedWordAt(text, i, <<1575, 1578, 1601, 1575, 1602, 1610, 1577>>, <<1578, 1593, 1575, 1608, 1606>>)
  \/ \E word \in {<<1602, 1575, 1606, 1608, 1606>>, <<1606, 1592, 1575, 1605>>} :
       /\ At(text, i, word)
       /\ i + Len(word) <= Len(text)
       /\ text[i + Len(word)] \in WhiteSpaceUnits

\* String.prototype.search: the index (from 0) of the first match, or -1.
search(text) ==
  LET found == {i \in 1..Len(text) : AgreementAt(text, i)} IN
  IF found = {} THEN -1 ELSE (CHOOSE i \in found : \A k \in found : i <= k) - 1

\* The lookahead of line 224: مبدأ\s+\d+|المبدأ\s+\d+
PrincipleAt(text, i) ==
  \/ SpacedNumberAt(text, i, <<1605, 1576, 1583, 1571>>, LatinDigits)
  \/ SpacedNumberAt(text, i, <<1575, 1604, 1605, 1576, 1583, 1571>>, LatinDigits)

\* The lookahead of line 257.
DecisionArticleAt(text, i) ==
  \/ ParenNumberAt(text, i, ArticleWord)
  \/ SpacedNumberAt(text, i, ArticleWord, Digits)
  \/ At(text, i, <<1575, 1604, 1602, 1585, 1575, 1585, 32, 1585, 1602, 1605>>)
  \/ SpacedNumberAt(text, i, <<1575, 1604, 1576, 1606, 1583>>, Digits)

\* The lookahead of line 263: \d+\s*-|\d+\s*\)|[٠-٩]+\s*-|[٠-٩]+\s*\)
SubArticleAt(text, i) ==
  \E class \in {LatinDigits, ArabicDigits} : \E mark \in {45, 41} :
    NumberMarkAt(text, i, class, mark)

\* The lookahead of line 279: نأمر|يُطلب|التوجيه|الأمر
OrderAt(text, i) ==
  \E word \in {<<1606, 1571, 1605, 1585>>, <<1610, 1615, 1591, 1604, 1576>>, <<1575, 1604, 1578, 1608, 1580, 1610, 1607>>, <<1575, 1604, 1571, 1605, 1585>>} : At(text, i, word)

\* The positions of text at which the lookahead of `rule` matches.
Points(rule, text) ==
  {i \in 1..Len(text) :
     CASE rule = "lawArticle" -> LawArticleAt(text, i)
       [] rule = "decreeArticle" -> DecreeArticleAt(text, i)
       [] rule = "agreementArticle" -> AgreementArticleAt(text, i)
       [] rule = "fatwa" -> FatwaAt(text, i)
       [] rule = "fatwaSection" -> FatwaSectionAt(text, i)
       [] rule = "principle" -> PrincipleAt(text, i)
       [] rule = "decisionArticle" -> DecisionArticleAt(text, i)
       [] rule = "subArticle" -> SubArticleAt(text, i)
       [] rule = "order" -> OrderAt(text, i)}

\* text.split(/(?=...)/) for the lookahead of `rule`.
split(rule, text) == splitBefore(text, Points(rule, text))

\* Every piece trimmed.
Trimmed(pieces) == [i \in DOMAIN pieces |-> trim(pieces[i])]
\* case 'laws': lines 126-136.
lawsChunks(text) ==
  SelectSeq(Trimmed(split("lawArticle", text)),
            LAMBDA cleanArticle :
              Len(cleanArticle) > 0 /\ (includes(cleanArticle, ArticleWord) \/ Len(cleanArticle) > 200))

\* The walk over the sections of a fatwa, from the i-th on: lines 154-164.
RECURSIVE FatwaSections(_, _, _, _)
FatwaSections(sections, i, chunks, currentFatwa) ==
  IF i > Len(sections)
  THEN IF Len(currentFatwa) > 0 THEN Append(chunks, trim(currentFatwa)) ELSE chunks
  ELSE LET cleanSection == trim(sections[i]) IN
       IF startsWith(cleanSection, Question)
       THEN FatwaSections(sections, i + 1,
                          IF Len(currentFatwa) > 0 THEN Append(chunks, trim(currentFatwa)) ELSE chunks,
                          cleanSection)
       ELSE IF startsWith(cleanSection, Answer) \/ startsWith(cleanSection, LegalBasis)
       THEN FatwaSections(sections, i + 1, chunks, currentFatwa \o <<10, 10>> \o cleanSection)
       ELSE FatwaSections(sections, i + 1, chunks, currentFatwa)

\* case 'fatwas': lines 138-166.
fatwasChunks(text) ==
  LET chunks == SelectSeq(Trimmed(split("fatwa", text)), LAMBDA cleanFatwa : Len(cleanFatwa) > 100)
  IN IF Len(chunks) = 0
     THEN FatwaSections(split("fatwaSection", text), 1, <<>>, <<>>)
     ELSE chunks

\* Mutant of decreeMainText: the decree is not cut off at the attached text.
decreeMainText_WholeText(text, agreementStart) == text

\* const decreeMainText = agreementStart > 0 ? text.substring(0, agreementStart).trim() : text
decreeMainText(text, agreementStart) ==
  IF agreementStart > 0 THEN trim(SubSeq(text, 1, agreementStart)) ELSE text

\* const agreementText = agreementStart > 0 ? text.substring(agreementStart).trim() : ''
agreementText(text, agreementStart) ==
  IF agreementStart > 0 THEN trim(SubSeq(text, agreementStart + 1, Len(text))) ELSE <<>>

\* The chunks of the decree itself: lines 179-195.
decreeChunks(decree) ==
  LET decreeArticles == split("decreeArticle", decree)
      mainDecreeText == trim(decreeArticles[1])
  IN (IF Len(mainDecreeText) > 100 THEN <<mainDecreeText>> ELSE <<>>)
     \o SelectSeq(Trimmed(Tail(decreeArticles)),
                  LAMBDA article : Len(article) > 0 /\ includes(article, ArticleWord))

\* The chunks of the attached agreement or law: lines 198-217.
agreementChunks(agreement) ==
  IF Len(agreement) > 100
  THEN LET agreementArticles == split("agreementArticle", agreement)
           agreementPreamble == trim(agreementArticles[1])
       IN (IF Len(agreementPreamble) > 200 THEN <<agreementPreamble>> ELSE <<>>)
          \o SelectSeq(Trimmed(Tail(agreementArticles)),
                       LAMBDA agreementArticle :
                         /\ Len(agreementArticle) > 0
                         /\ includes(agreementArticle, ArticleWord) \/ Len(agreementArticle) > 100)
  ELSE <<>>

\* case 'royal_decrees': lines 168-218.
royalDecreesChunks(text) ==
  LET agreementStart == search(text)
  IN decreeChunks(decreeMainText(text, agreementStart))
     \o agreementChunks(agreementText(text, agreementStart))

\* The packing of paragraphs into chunks of at most `limit` characters, from
\* the i-th paragraph on: lines 237-249 and 293-305.
RECURSIVE Pack(_, _, _, _, _)
Pack(paragraphs, i, chunks, currentChunk, limit) ==
  IF i > Len(paragraphs)
  THEN IF Len(currentChunk) > 0 THEN Append(chunks, trim(currentChunk)) ELSE chunks
  ELSE LET cleanParagraph == trim(paragraphs[i]) IN
       IF Len(cleanParagraph) = 0 THEN Pack(paragraphs, i + 1, chunks, currentChunk, limit)
       ELSE IF Len(currentChunk) + Len(cleanParagraph) > limit
       THEN Pack(paragraphs, i + 1,
                 IF Len(currentChunk) > 0 THEN Append(chunks, trim(currentChunk)) ELSE chunks,
                 cleanParagraph, limit)
       ELSE Pack(paragraphs, i + 1, chunks,
                 currentChunk \o (IF Len(currentChunk) > 0 THEN <<10, 10>> ELSE <<>>) \o cleanParagraph,
                 limit)

\* case 'judicial_civil', 'judicial_criminal', 'judicial_principles': lines
\* 220-251.
judicialChunks(text) ==
  LET chunks == SelectSeq(Trimmed(split("principle", text)),
                          LAMBDA cleanPrinciple :
                            /\ Len(cleanPrinciple) > 0
                            /\ includes(cleanPrinciple, <<1605, 1576, 1583, 1571>>) \/ Len(cleanPrinciple) > 200)
  IN IF Len(chunks) = 0
     THEN Pack(splitOn("paragraph", text, 1), 1, <<>>, <<>>, 1500)
     ELSE chunks

\* The chunks of one article of a decision or regulation: lines 260-273.
articleChunks(cleanArticle) ==
  IF Len(cleanArticle) > 50
  THEN IF Len(cleanArticle) > 2000
       THEN SelectSeq(Trimmed(split("subArticle", cleanArticle)),
                      LAMBDA cleanSubArticle : Len(cleanSubArticle) > 100)
       ELSE <<cleanArticle>>
  ELSE <<>>

RECURSIVE Flattened(_)
Flattened(lists) == IF Len(lists) = 0 THEN <<>> ELSE Head(lists) \o Flattened(Tail(lists))

\* case 'ministerial_decisions', 'regulations': lines 253-275.
decisionsChunks(text) ==
  LET articles == Trimmed(split("decisionArticle", text))
  IN Flattened([i \in DOMAIN articles |-> articleChunks(articles[i])])

\* case 'royal_orders': lines 277-286.
royalOrdersChunks(text) ==
  SelectSeq(Trimmed(split("order", text)), LAMBDA cleanOrder : Len(cleanOrder) > 100)

\* default: lines 288-306.
defaultChunks(text) == Pack(splitOn("paragraph", text, 1), 1, <<>>, <<>>, 1000)

\* The switch on documentType: lines 125-307.
categoryChunks(text, documentType) ==
  CASE documentType = "laws" -> lawsChunks(text)
    [] documentType = "fatwas" -> fatwasChunks(text)
    [] documentType = "royal_decrees" -> royalDecreesChunks(text)
    [] documentType \in {"judicial_civil", "judicial_criminal", "judicial_principles"} ->
         judicialChunks(text)
    [] documentType \in {"ministerial_decisions", "regulations"} -> decisionsChunks(text)
    [] documentType = "royal_orders" -> royalOrdersChunks(text)
    [] OTHER -> defaultChunks(text)

\* The packing of sentences into chunks of at most about 800 characters, from
\* the i-th sentence on: lines 315-327.
RECURSIVE PackSentences(_, _, _, _)
PackSentences(sentences, i, chunks, emergencyChunk) ==
  IF i > Len(sentences)
  THEN IF Len(emergencyChunk) > 0 THEN Append(chunks, trim(emergencyChunk) \o <<46>>) ELSE chunks
  ELSE LET cleanSentence == trim(sentences[i]) IN
       IF Len(cleanSentence) = 0 THEN PackSentences(sentences, i + 1, chunks, emergencyChunk)
       ELSE IF Len(emergencyChunk) + Len(cleanSentence) > 800
       THEN PackSentences(sentences, i + 1,
                          IF Len(emergencyChunk) > 0
                          THEN Append(chunks, trim(emergencyChunk) \o <<46>>) ELSE chunks,
                          cleanSentence)
       ELSE PackSentences(sentences, i + 1, chunks,
                          emergencyChunk \o (IF Len(emergencyChunk) > 0 THEN <<46, 32>> ELSE <<>>)
                            \o cleanSentence)

\* The emergency split on sentences, when the switch left no chunk: lines
\* 310-328.
withEmergency(chunks, text) ==
  IF Len(chunks) = 0 /\ Len(text) > 0
  THEN PackSentences(splitOn("sentence", text, 1), 1, <<>>, <<>>)
  ELSE chunks

\* Mutant of validChunks: the chunks are returned as collected.
validChunks_Unfiltered(chunks) == chunks

\* const validChunks = chunks.filter(chunk => chunk.length > 30 && chunk.trim().length > 0)
validChunks(chunks) ==
  SelectSeq(chunks, LAMBDA chunk : Len(chunk) > 30 /\ Len(trim(chunk)) > 0)

\* ruleBasedChunking(documentText, documentType)
ruleBasedChunking(documentText, documentType) ==
  LET text == trim(documentText)
  IN IF Len(text) = 0 THEN <<>>
     ELSE validChunks(withEmergency(categoryChunks(text, documentType), text))
\* ---------------------------------------------- calls of ruleBasedChunking

\* Texts given to ruleBasedChunking: at most this many segments.
MaxParts == 3

\* Segments of the texts chunked under every document type.
GenericSegments ==
  \* a short sentence, 8 characters: نص قصير.
  { <<1606, 1589, 32, 1602, 1589, 1610, 1585, 46>>,
  \* a sentence of more than 30 characters with no marker: هذه فقرة عامة من وثيقة لا تحمل أي علامة هيكلية.
    <<1607, 1584, 1607, 32, 1601, 1602, 1585, 1577, 32, 1593, 1575, 1605, 1577, 32, 1605, 1606,
      32, 1608, 1579, 1610, 1602, 1577, 32, 1604, 1575, 32, 1578, 1581, 1605, 1604, 32, 1571,
      1610, 32, 1593, 1604, 1575, 1605, 1577, 32, 1607, 1610, 1603, 1604, 1610, 1577, 46>>,
  \* a short article: المادة 1: نص أ.
    <<1575, 1604, 1605, 1575, 1583, 1577, 32, 49, 58, 32, 1606, 1589, 32, 1571, 46>>,
  \* a new paragraph with a question and its answer: \n\nالسؤال: ما حكم هذا العقد؟ الجواب: العقد صحيح ونافذ بين الطرفين.
    <<10, 10, 1575, 1604, 1587, 1572, 1575, 1604, 58, 32, 1605, 1575, 32, 1581, 1603, 1605, 32,
      1607, 1584, 1575, 32, 1575, 1604, 1593, 1602, 1583, 1567, 32, 1575, 1604, 1580, 1608, 1575,
      1576, 58, 32, 1575, 1604, 1593, 1602, 1583, 32, 1589, 1581, 1610, 1581, 32, 1608, 1606,
      1575, 1601, 1584, 32, 1576, 1610, 1606, 32, 1575, 1604, 1591, 1585, 1601, 1610, 1606, 46>>,
  \* a numbered principle: مبدأ 1 لا يجوز الحكم بما لم يطلبه الخصوم في الدعوى.
    <<1605, 1576, 1583, 1571, 32, 49, 32, 1604, 1575, 32, 1610, 1580, 1608, 1586, 32, 1575,
      1604, 1581, 1603, 1605, 32, 1576, 1605, 1575, 32, 1604, 1605, 32, 1610, 1591, 1604, 1576,
      1607, 32, 1575, 1604, 1582, 1589, 1608, 1605, 32, 1601, 1610, 32, 1575, 1604, 1583, 1593,
      1608, 1609, 46>> }

\* Segments of the texts chunked as laws.
LawSegments ==
  \* a short article numbered in Latin digits: المادة 1: نص أ.
  { <<1575, 1604, 1605, 1575, 1583, 1577, 32, 49, 58, 32, 1606, 1589, 32, 1571, 46>>,
  \* a second short article: المادة 2: نص ب.
    <<1575, 1604, 1605, 1575, 1583, 1577, 32, 50, 58, 32, 1606, 1589, 32, 1576, 46>>,
  \* an article of more than 30 characters, numbered by an ordinal: المادة الأولى يعمل بأحكام هذا القانون من تاريخ نشره في الجريدة الرسمية.
    <<1575, 1604, 1605, 1575, 1583, 1577, 32, 1575, 1604, 1571, 1608, 1604, 1609, 32, 1610,
      1593, 1605, 1604, 32, 1576, 1571, 1581, 1603, 1575, 1605, 32, 1607, 1584, 1575, 32, 1575,
      1604, 1602, 1575, 1606, 1608, 1606, 32, 1605, 1606, 32, 1578, 1575, 1585, 1610, 1582, 32,
      1606, 1588, 1585, 1607, 32, 1601, 1610, 32, 1575, 1604, 1580, 1585, 1610, 1583, 1577, 32,
      1575, 1604, 1585, 1587, 1605, 1610, 1577, 46>>,
  \* an article of more than 30 characters, numbered in Arabic digits in parentheses: المادة ( ٣ ) تلغى الأحكام المخالفة لهذا القانون أو المتعارضة معه.
    <<1575, 1604, 1605, 1575, 1583, 1577, 32, 40, 32, 1635, 32, 41, 32, 1578, 1604, 1594, 1609,
      32, 1575, 1604, 1571, 1581, 1603, 1575, 1605, 32, 1575, 1604, 1605, 1582, 1575, 1604, 1601,
      1577, 32, 1604, 1607, 1584, 1575, 32, 1575, 1604, 1602, 1575, 1606, 1608, 1606, 32, 1571,
      1608, 32, 1575, 1604, 1605, 1578, 1593, 1575, 1585, 1590, 1577, 32, 1605, 1593, 1607, 46>>,
  \* a title with no article marker: قانون العمل
    <<1602, 1575, 1606, 1608, 1606, 32, 1575, 1604, 1593, 1605, 1604>> }

\* Segments of the texts chunked as royal decrees.
DecreeSegments ==
  \* the preamble of a decree, more than 100 characters, no marker (141): مرسوم سلطاني رقم ٢٠٢٢/٨٩ بالتصديق على ما تم التوقيع عليه نحن هيثم بن طارق سلطان عمان بعد الاطلاع على ما تقتضيه المصلحة العامة رسمنا بما هو آت
  { <<1605, 1585, 1587, 1608, 1605, 32, 1587, 1604, 1591, 1575, 1606, 1610, 32, 1585, 1602,
      1605, 32, 1634, 1632, 1634, 1634, 47, 1640, 1641, 32, 1576, 1575, 1604, 1578, 1589, 1583,
      1610, 1602, 32, 1593, 1604, 1609, 32, 1605, 1575, 32, 1578, 1605, 32, 1575, 1604, 1578,
      1608, 1602, 1610, 1593, 32, 1593, 1604, 1610, 1607, 32, 1606, 1581, 1606, 32, 1607, 1610,
      1579, 1605, 32, 1576, 1606, 32, 1591, 1575, 1585, 1602, 32, 1587, 1604, 1591, 1575, 1606,
      32, 1593, 1605, 1575, 1606, 32, 1576, 1593, 1583, 32, 1575, 1604, 1575, 1591, 1604, 1575,
      1593, 32, 1593, 1604, 1609, 32, 1605, 1575, 32, 1578, 1602, 1578, 1590, 1610, 1607, 32,
      1575, 1604, 1605, 1589, 1604, 1581, 1577, 32, 1575, 1604, 1593, 1575, 1605, 1577, 32, 1585,
      1587, 1605, 1606, 1575, 32, 1576, 1605, 1575, 32, 1607, 1608, 32, 1570, 1578>>,
  \* an article of the decree: المادة الأولى ينشر هذا المرسوم في الجريدة الرسمية ويعمل به من تاريخ صدوره.
    <<1575, 1604, 1605, 1575, 1583, 1577, 32, 1575, 1604, 1571, 1608, 1604, 1609, 32, 1610,
      1606, 1588, 1585, 32, 1607, 1584, 1575, 32, 1575, 1604, 1605, 1585, 1587, 1608, 1605, 32,
      1601, 1610, 32, 1575, 1604, 1580, 1585, 1610, 1583, 1577, 32, 1575, 1604, 1585, 1587, 1605,
      1610, 1577, 32, 1608, 1610, 1593, 1605, 1604, 32, 1576, 1607, 32, 1605, 1606, 32, 1578,
      1575, 1585, 1610, 1582, 32, 1589, 1583, 1608, 1585, 1607, 46>>,
  \* the opening of an attached agreement (101 characters): اتفاقية تعاون بين حكومة سلطنة عمان وحكومة مملكة البحرين في المجال الأمني فقد اتفق الطرفان على ما يأتي
    <<1575, 1578, 1601, 1575, 1602, 1610, 1577, 32, 1578, 1593, 1575, 1608, 1606, 32, 1576,
      1610, 1606, 32, 1581, 1603, 1608, 1605, 1577, 32, 1587, 1604, 1591, 1606, 1577, 32, 1593,
      1605, 1575, 1606, 32, 1608, 1581, 1603, 1608, 1605, 1577, 32, 1605, 1605, 1604, 1603, 1577,
      32, 1575, 1604, 1576, 1581, 1585, 1610, 1606, 32, 1601, 1610, 32, 1575, 1604, 1605, 1580,
      1575, 1604, 32, 1575, 1604, 1571, 1605, 1606, 1610, 32, 1601, 1602, 1583, 32, 1575, 1578,
      1601, 1602, 32, 1575, 1604, 1591, 1585, 1601, 1575, 1606, 32, 1593, 1604, 1609, 32, 1605,
      1575, 32, 1610, 1571, 1578, 1610>>,
  \* an article of the agreement: المادة ( ١ ) يعمل الطرفان على تعزيز وتطوير التعاون القائم بينهما.
    <<1575, 1604, 1605, 1575, 1583, 1577, 32, 40, 32, 1633, 32, 41, 32, 1610, 1593, 1605, 1604,
      32, 1575, 1604, 1591, 1585, 1601, 1575, 1606, 32, 1593, 1604, 1609, 32, 1578, 1593, 1586,
      1610, 1586, 32, 1608, 1578, 1591, 1608, 1610, 1585, 32, 1575, 1604, 1578, 1593, 1575, 1608,
      1606, 32, 1575, 1604, 1602, 1575, 1574, 1605, 32, 1576, 1610, 1606, 1607, 1605, 1575, 46>>,
  \* a recital that names the Basic Statute (النظام): بعد الاطلاع على النظام الأساسي للدولة
    <<1576, 1593, 1583, 32, 1575, 1604, 1575, 1591, 1604, 1575, 1593, 32, 1593, 1604, 1609, 32,
      1575, 1604, 1606, 1592, 1575, 1605, 32, 1575, 1604, 1571, 1587, 1575, 1587, 1610, 32, 1604,
      1604, 1583, 1608, 1604, 1577>> }

\* Segments of the texts chunked as fatwas.
FatwaSegments ==
  \* a short question and its answer (21 characters): السؤال: س؟ الجواب: ج.
  { <<1575, 1604, 1587, 1572, 1575, 1604, 58, 32, 1587, 1567, 32, 1575, 1604, 1580, 1608, 1575,
      1576, 58, 32, 1580, 46>>,
  \* a question and its answer: السؤال: ما حكم هذا العقد؟ الجواب: العقد صحيح ونافذ بين الطرفين.
    <<1575, 1604, 1587, 1572, 1575, 1604, 58, 32, 1605, 1575, 32, 1581, 1603, 1605, 32, 1607,
      1584, 1575, 32, 1575, 1604, 1593, 1602, 1583, 1567, 32, 1575, 1604, 1580, 1608, 1575, 1576,
      58, 32, 1575, 1604, 1593, 1602, 1583, 32, 1589, 1581, 1610, 1581, 32, 1608, 1606, 1575,
      1601, 1584, 32, 1576, 1610, 1606, 32, 1575, 1604, 1591, 1585, 1601, 1610, 1606, 46>>,
  \* a question and its answer, more than 100 characters (169): السؤال: هل يجوز للوزارة التعاقد مباشرة مع المورد دون طرح مناقصة عامة إذا تجاوزت القيمة الحد المقرر؟ الجواب: لا يجوز ذلك إلا في الأحوال التي حددها القانون على سبيل الحصر.
    <<1575, 1604, 1587, 1572, 1575, 1604, 58, 32, 1607, 1604, 32, 1610, 1580, 1608, 1586, 32,
      1604, 1604, 1608, 1586, 1575, 1585, 1577, 32, 1575, 1604, 1578, 1593, 1575, 1602, 1583, 32,
      1605, 1576, 1575, 1588, 1585, 1577, 32, 1605, 1593, 32, 1575, 1604, 1605, 1608, 1585, 1583,
      32, 1583, 1608, 1606, 32, 1591, 1585, 1581, 32, 1605, 1606, 1575, 1602, 1589, 1577, 32,
      1593, 1575, 1605, 1577, 32, 1573, 1584, 1575, 32, 1578, 1580, 1575, 1608, 1586, 1578, 32,
      1575, 1604, 1602, 1610, 1605, 1577, 32, 1575, 1604, 1581, 1583, 32, 1575, 1604, 1605, 1602,
      1585, 1585, 1567, 32, 1575, 1604, 1580, 1608, 1575, 1576, 58, 32, 1604, 1575, 32, 1610,
      1580, 1608, 1586, 32, 1584, 1604, 1603, 32, 1573, 1604, 1575, 32, 1601, 1610, 32, 1575,
      1604, 1571, 1581, 1608, 1575, 1604, 32, 1575, 1604, 1578, 1610, 32, 1581, 1583, 1583, 1607,
      1575, 32, 1575, 1604, 1602, 1575, 1606, 1608, 1606, 32, 1593, 1604, 1609, 32, 1587, 1576,
      1610, 1604, 32, 1575, 1604, 1581, 1589, 1585, 46>>,
  \* a question and an answer that cites a decree by its number, 36/2008: السؤال: هل يجوز للوزارة التعاقد مباشرة مع المورد دون طرح مناقصة عامة إذا تجاوزت القيمة الحد المقرر؟ الجواب: لا يجوز ذلك وفقا لأحكام قانون المناقصات الصادر بالمرسوم السلطاني رقم 36/2008 ولائحته التنفيذية إلا في الأحوال التي حددها القانون على سبيل الحصر وبموافقة مجلس المناقصات.
    <<1575, 1604, 1587, 1572, 1575, 1604, 58, 32, 1607, 1604, 32, 1610, 1580, 1608, 1586, 32,
      1604, 1604, 1608, 1586, 1575, 1585, 1577, 32, 1575, 1604, 1578, 1593, 1575, 1602, 1583, 32,
      1605, 1576, 1575, 1588, 1585, 1577, 32, 1605, 1593, 32, 1575, 1604, 1605, 1608, 1585, 1583,
      32, 1583, 1608, 1606, 32, 1591, 1585, 1581, 32, 1605, 1606, 1575, 1602, 1589, 1577, 32,
      1593, 1575, 1605, 1577, 32, 1573, 1584, 1575, 32, 1578, 1580, 1575, 1608, 1586, 1578, 32,
      1575, 1604, 1602, 1610, 1605, 1577, 32, 1575, 1604, 1581, 1583, 32, 1575, 1604, 1605, 1602,
      1585, 1585, 1567, 32, 1575, 1604, 1580, 1608, 1575, 1576, 58, 32, 1604, 1575, 32, 1610,
      1580, 1608, 1586, 32, 1584, 1604, 1603, 32, 1608, 1601, 1602, 1575, 32, 1604, 1571, 1581,
      1603, 1575, 1605, 32, 1602, 1575, 1606, 1608, 1606, 32, 1575, 1604, 1605, 1606, 1575, 1602,
      1589, 1575, 1578, 32, 1575, 1604, 1589, 1575, 1583, 1585, 32, 1576, 1575, 1604, 1605, 1585,
      1587, 1608, 1605, 32, 1575, 1604, 1587, 1604, 1591, 1575, 1606, 1610, 32, 1585, 1602, 1605,
      32, 51, 54, 47, 50, 48, 48, 56, 32, 1608, 1604, 1575, 1574, 1581, 1578, 1607, 32, 1575,
      1604, 1578, 1606, 1601, 1610, 1584, 1610, 1577, 32, 1573, 1604, 1575, 32, 1601, 1610, 32,
      1575, 1604, 1571, 1581, 1608, 1575, 1604, 32, 1575, 1604, 1578, 1610, 32, 1581, 1583, 1583,
      1607, 1575, 32, 1575, 1604, 1602, 1575, 1606, 1608, 1606, 32, 1593, 1604, 1609, 32, 1587,
      1576, 1610, 1604, 32, 1575, 1604, 1581, 1589, 1585, 32, 1608, 1576, 1605, 1608, 1575, 1601,
      1602, 1577, 32, 1605, 1580, 1604, 1587, 32, 1575, 1604, 1605, 1606, 1575, 1602, 1589, 1575,
      1578, 46>>,
  \* the legal basis of a fatwa: الأساس القانوني: المادة 5 من قانون المناقصات.
    <<1575, 1604, 1571, 1587, 1575, 1587, 32, 1575, 1604, 1602, 1575, 1606, 1608, 1606, 1610,
      58, 32, 1575, 1604, 1605, 1575, 1583, 1577, 32, 53, 32, 1605, 1606, 32, 1602, 1575, 1606,
      1608, 1606, 32, 1575, 1604, 1605, 1606, 1575, 1602, 1589, 1575, 1578, 46>> }

\* The texts of at most MaxParts segments of `segments`, one space in between.
TextsOf(segments) == {Joined(ws) : ws \in UNION {[1..n -> segments] : n \in 0..MaxParts}}

\* n paragraphs, each the segment given.
RECURSIVE Repeated(_, _)
Repeated(segment, n) ==
  IF n = 1 THEN segment ELSE segment \o <<10, 10>> \o Repeated(segment, n - 1)

\* Texts long enough to pass the size limits of the packing loops (800, 1000
\* and 1500 characters) and of the long articles (2000 characters).
LongTexts ==
  {Repeated(segment, n) : segment \in {s \in GenericSegments : s[1] # 10 /\ Len(s) > 10},
                          n \in {25, 60}}

\* The calls made: every document type on the texts of generic segments and on
\* the long texts, and the texts of a law, of a royal decree and of fatwas
\* under their own type.
ChunkingInputs ==
  {[fn |-> "ruleBasedChunking", documentText |-> t, documentType |-> DocumentTypes[i]] :
     t \in TextsOf(GenericSegments) \cup LongTexts, i \in DOMAIN DocumentTypes}
  \cup {[fn |-> "ruleBasedChunking", documentText |-> t, documentType |-> "laws"] :
          t \in TextsOf(LawSegments)}
  \cup {[fn |-> "ruleBasedChunking", documentText |-> t, documentType |-> "royal_decrees"] :
          t \in TextsOf(DecreeSegments)}
  \cup {[fn |-> "ruleBasedChunking", documentText |-> t, documentType |-> "fatwas"] :
          t \in TextsOf(FatwaSegments)}

\* The chunking flow falls back on ruleBasedChunking(documentText, documentType).
callRuleBasedChunking ==
  /\ input.fn = "ruleBasedChunking"
  /\ ~output.done
  /\ output' = Value(ruleBasedChunking(input.documentText, input.documentType))
  /\ UNCHANGED <<input, managerVars, directVars>>

InitChunking ==
  /\ Untouched
  /\ input \in ChunkingInputs
  /\ output = NoOutput

NextChunking == callRuleBasedChunking

SpecChunking == InitChunking /\ [][NextChunking]_vars

\* ------------------------------------------------ calls of processDocument

\* The texts given to processDocument, each with what it is.
ProcessedTexts ==
  { \* the empty text: ''
    <<>>,
    \* a: a
    <<97>>,
    \* no string of any profile: سلام
    <<1587, 1604, 1575, 1605>>,
    \* a general text: وثيقة: هذا نص عام طويل بما يكفي للمقطع
    <<1608, 1579, 1610, 1602, 1577, 58, 32, 1607, 1584, 1575, 32, 1606, 1589, 32, 1593, 1575,
    1605, 32, 1591, 1608, 1610, 1604, 32, 1576, 1605, 1575, 32, 1610, 1603, 1601, 1610, 32, 1604,
    1604, 1605, 1602, 1591, 1593>>,
    \* a law title and no article: قانون العمل
    <<1602, 1575, 1606, 1608, 1606, 32, 1575, 1604, 1593, 1605, 1604>>,
    \* an article numbered in parentheses: قانون العمل\nالمادة (1): يسري هذا القانون
    <<1602, 1575, 1606, 1608, 1606, 32, 1575, 1604, 1593, 1605, 1604, 10, 1575, 1604, 1605, 1575,
    1583, 1577, 32, 40, 49, 41, 58, 32, 1610, 1587, 1585, 1610, 32, 1607, 1584, 1575, 32, 1575,
    1604, 1602, 1575, 1606, 1608, 1606>>,
    \* a law of one short article: قانون العمل\nالمادة 1: يجوز
    <<1602, 1575, 1606, 1608, 1606, 32, 1575, 1604, 1593, 1605, 1604, 10, 1575, 1604, 1605, 1575,
    1583, 1577, 32, 49, 58, 32, 1610, 1580, 1608, 1586>>,
    \* a law of two articles, the second one empty: قانون رقم 5\nالمادة 1 : 2023\nالمادة 2:\n
    <<1602, 1575, 1606, 1608, 1606, 32, 1585, 1602, 1605, 32, 53, 10, 1575, 1604, 1605, 1575,
    1583, 1577, 32, 49, 32, 58, 32, 50, 48, 50, 51, 10, 1575, 1604, 1605, 1575, 1583, 1577, 32,
    50, 58, 10>>,
    \* a decree without articles: مرسوم سلطاني رقم 5/2020 بتعديل الأحكام
    <<1605, 1585, 1587, 1608, 1605, 32, 1587, 1604, 1591, 1575, 1606, 1610, 32, 1585, 1602, 1605,
    32, 53, 47, 50, 48, 50, 48, 32, 1576, 1578, 1593, 1583, 1610, 1604, 32, 1575, 1604, 1571,
    1581, 1603, 1575, 1605>>,
    \* a decree of one article: مرسوم سلطاني صدر في 2020\nالمادة 1: 15 يوم
    <<1605, 1585, 1587, 1608, 1605, 32, 1587, 1604, 1591, 1575, 1606, 1610, 32, 1589, 1583, 1585,
    32, 1601, 1610, 32, 50, 48, 50, 48, 10, 1575, 1604, 1605, 1575, 1583, 1577, 32, 49, 58, 32,
    49, 53, 32, 1610, 1608, 1605>>,
    \* a regulation of one article: لائحة تنظيم العمل\nالمادة 1: 30 يوم
    <<1604, 1575, 1574, 1581, 1577, 32, 1578, 1606, 1592, 1610, 1605, 32, 1575, 1604, 1593, 1605,
    1604, 10, 1575, 1604, 1605, 1575, 1583, 1577, 32, 49, 58, 32, 51, 48, 32, 1610, 1608, 1605>>,
    \* a ministerial decision without articles: قرار وزاري رقم 7/2021 وزارة الصحة
    <<1602, 1585, 1575, 1585, 32, 1608, 1586, 1575, 1585, 1610, 32, 1585, 1602, 1605, 32, 55, 47,
    50, 48, 50, 49, 32, 1608, 1586, 1575, 1585, 1577, 32, 1575, 1604, 1589, 1581, 1577>>,
    \* a royal order: أمر سامي\nنأمر بما يلي: تعيين فلان
    <<1571, 1605, 1585, 32, 1587, 1575, 1605, 1610, 10, 1606, 1571, 1605, 1585, 32, 1576, 1605,
    1575, 32, 1610, 1604, 1610, 58, 32, 1578, 1593, 1610, 1610, 1606, 32, 1601, 1604, 1575,
    1606>>,
    \* a royal order without its opening words: أمر سامي
    <<1571, 1605, 1585, 32, 1587, 1575, 1605, 1610>>,
    \* an identifier of fatwas and nothing else: فتوى
    <<1601, 1578, 1608, 1609>>,
    \* a fatwa with its question and its answer: فتوى السؤال: ما مدى ذلك؟ الجواب: لا يجوز
    <<1601, 1578, 1608, 1609, 32, 1575, 1604, 1587, 1572, 1575, 1604, 58, 32, 1605, 1575, 32,
    1605, 1583, 1609, 32, 1584, 1604, 1603, 1567, 32, 1575, 1604, 1580, 1608, 1575, 1576, 58, 32,
    1604, 1575, 32, 1610, 1580, 1608, 1586>>,
    \* a fatwa with its answer and its legal basis: فتوى السؤال الجواب: لا يجوز المادة 5
    <<1601, 1578, 1608, 1609, 32, 1575, 1604, 1587, 1572, 1575, 1604, 32, 1575, 1604, 1580, 1608,
    1575, 1576, 58, 32, 1604, 1575, 32, 1610, 1580, 1608, 1586, 32, 1575, 1604, 1605, 1575, 1583,
    1577, 32, 53>>,
    \* a fatwa that opens with its question: ما مدى جواز ذلك؟ فتوى الجواب: يجوز
    <<1605, 1575, 32, 1605, 1583, 1609, 32, 1580, 1608, 1575, 1586, 32, 1584, 1604, 1603, 1567,
    32, 1601, 1578, 1608, 1609, 32, 1575, 1604, 1580, 1608, 1575, 1576, 58, 32, 1610, 1580, 1608,
    1586>>,
    \* a judicial principle: مبدأ قضائي المبدأ: لا جريمة الأساس القانوني
    <<1605, 1576, 1583, 1571, 32, 1602, 1590, 1575, 1574, 1610, 32, 1575, 1604, 1605, 1576, 1583,
    1571, 58, 32, 1604, 1575, 32, 1580, 1585, 1610, 1605, 1577, 32, 1575, 1604, 1571, 1587, 1575,
    1587, 32, 1575, 1604, 1602, 1575, 1606, 1608, 1606, 1610>>,
    \* a criminal judgment: حكم جزائي جناية سرقة
    <<1581, 1603, 1605, 32, 1580, 1586, 1575, 1574, 1610, 32, 1580, 1606, 1575, 1610, 1577, 32,
    1587, 1585, 1602, 1577>>,
    \* a civil judgment: دعوى مدنية المدعي فلان تعويض عن ضرر
    <<1583, 1593, 1608, 1609, 32, 1605, 1583, 1606, 1610, 1577, 32, 1575, 1604, 1605, 1583, 1593,
    1610, 32, 1601, 1604, 1575, 1606, 32, 1578, 1593, 1608, 1610, 1590, 32, 1593, 1606, 32, 1590,
    1585, 1585>>,
    \* an index of two entries: فهرس المحتويات\nمقدمة .... 3\nخاتمة ..10
    <<1601, 1607, 1585, 1587, 32, 1575, 1604, 1605, 1581, 1578, 1608, 1610, 1575, 1578, 10, 1605,
    1602, 1583, 1605, 1577, 32, 46, 46, 46, 46, 32, 51, 10, 1582, 1575, 1578, 1605, 1577, 32, 46,
    46, 49, 48>>,
    \* an index without entries: فهرس المحتويات
    <<1601, 1607, 1585, 1587, 32, 1575, 1604, 1605, 1581, 1578, 1608, 1610, 1575, 1578>>,
    \* a template of two sections: نموذج طلب\nالبند 1: 2024\nالبند 2: يوقع
    <<1606, 1605, 1608, 1584, 1580, 32, 1591, 1604, 1576, 10, 1575, 1604, 1576, 1606, 1583, 32,
    49, 58, 32, 50, 48, 50, 52, 10, 1575, 1604, 1576, 1606, 1583, 32, 50, 58, 32, 1610, 1608,
    1602, 1593>>,
    \* a template without sections: نموذج استمارة
    <<1606, 1605, 1608, 1584, 1580, 32, 1575, 1587, 1578, 1605, 1575, 1585, 1577>>,
    \* a text that cleanContent shortens:   وثيقة \r\n
    <<32, 32, 1608, 1579, 1610, 1602, 1577, 32, 13, 10>> }

\* The ocrConfidence given with a text: none, 0, and 0.8.
Confidences == {NoConfidence, 0, 80}

\* A caller calls processDocument(input.documentContent, new Set(),
\* input.ocrConfidence) and awaits its result.
awaitProcessDocument ==
  /\ input.fn = "processDocument"
  /\ ~output.done
  /\ output' = Value(processDocument(input.documentContent, {}, input.ocrConfidence))
  /\ UNCHANGED <<input, managerVars, directVars>>

InitProcess ==
  /\ Untouched
  /\ input \in {[fn |-> "processDocument", documentContent |-> t, ocrConfidence |-> c] :
                  t \in ProcessedTexts, c \in Confidences}
  /\ output = NoOutput

NextProcess == awaitProcessDocument

SpecProcess == InitProcess /\ [][NextProcess]_vars

\* ================================================================ claims

Range(seq) == {seq[i] : i \in DOMAIN seq}

\* The hash processDocument computes for a job's document.
HashOfJob(j) == generateContentHash(cleanContent(jobs[j].input.content))

\* The steps of a processQueue run (its call and its two continuations).
RunSteps == {"processQueue", "resume", "afterDelay"}

\* The jobs whose status this step changes from `from` to `to`.
Moved(from, to) ==
  {j \in DOMAIN jobs : jobs[j].status = from /\ jobs'[j].status = to}

\* C1: a step of the run adds a hash to the registry only for a job that this
\* very step completes, after processDocument ran all its stages for it, and the
\* hash is that job's; a step in which a job ends failed leaves the registry
\* as it was.
C1_RegisteredOnlyAfterSuccess ==
  [][ /\ Moved("processing", "failed") # {} => processedHashes' = processedHashes
      /\ lastCall'.op \in RunSteps =>
           \A h \in processedHashes' \ processedHashes :
             \E j \in Moved("processing", "completed") :
               /\ h = HashOfJob(j)
               /\ jobs'[j].result.kind = "result"
               /\ jobs'[j].result.stages = <<"clean", "hash", "check">> \o StagesAfterCheck
    ]_vars

\* C1 witness: a run has just completed its first job, whose text is that of a
\* job that failed in an earlier run.
C1_Witness ==
  /\ pc = "delay"
  /\ results.totalProcessed = 1
  /\ Len(results.successful) = 1
  /\ \E j \in DOMAIN jobs :
       /\ jobs[j].status = "failed"
       /\ jobs[j].input.content = jobs[results.successful[1].jobId].input.content

\* C2: a job is created pending, stays in the heap, and its status changes
\* only from pending to processing and from processing to completed or failed.
C2_StatusTransitions ==
  [][ /\ \A j \in DOMAIN jobs :
           /\ j \in DOMAIN jobs'
           /\ \/ jobs'[j].status = jobs[j].status
              \/ <<jobs[j].status, jobs'[j].status>> \in
                   {<<"pending", "processing">>, <<"processing", "completed">>,
                    <<"processing", "failed">>}
      /\ \A j \in DOMAIN jobs' \ DOMAIN jobs : jobs'[j].status = "pending"
    ]_vars

\* C2 witness: one job has ended completed and another failed.
C2_Witness ==
  \E j, k \in DOMAIN jobs : jobs[j].status = "completed" /\ jobs[k].status = "failed"

\* Job ids are given in the order of creation: a sorts before b when its
\* priority is higher, or equal and a was enqueued first.
TakenBefore(a, b) ==
  \/ priorityOrder(jobs[a].priority) > priorityOrder(jobs[b].priority)
  \/ priorityOrder(jobs[a].priority) = priorityOrder(jobs[b].priority) /\ a < b

\* C3: the job a step takes off the queue sorts before every other job that
\* was waiting in the queue.
C3_TakenInPriorityOrder ==
  [][ \A j \in Moved("pending", "processing") :
        \A k \in Range(processingQueue) \ {j} : TakenBefore(j, k)
    ]_vars

\* C3 witness: the third job, admitted by a later call than the first (a call
\* admits at most MaxBatch jobs), is of high priority and is processed while two
\* older jobs of one lower priority wait in the order of their admission, no
\* job having been admitted during the run.
C3_Witness ==
  /\ pc = "awaitDocument"
  /\ ~enqueuedInRun
  /\ job = 3
  /\ jobs[job].priority = "high"
  /\ processingQueue = <<1, 2>>
  /\ jobs[1].priority = jobs[2].priority


\* The jobs the run in progress was started on, seen from the step that ends it:
\* a run that ends in the step of its call found the queue of that moment.
StartedOn == IF lastCall'.op = "processQueue" THEN processingQueue ELSE runStart

\* C4: a run of the queue ends only when every job it was started on has
\* reached completed or failed.
C4_EveryJobFinishes ==
  [][ /\ lastCall'.op \in RunSteps
      /\ lastCall'.error # "already processing"
      /\ ~isProcessing'
      => \A j \in Range(StartedOn) : jobs'[j].status \in Terminal
    ]_vars

\* The number of entries of the three lists of `res` that name job j.
Appearances(res, j) ==
  Cardinality({i \in DOMAIN res.successful : res.successful[i].jobId = j})
  + Cardinality({i \in DOMAIN res.failed : res.failed[i].jobId = j})
  + Cardinality({i \in DOMAIN res.duplicates : res.duplicates[i].jobId = j})

\* C5: the results a run returns, when no job was enqueued during the run,
\* count the K jobs the run found in the queue: totalProcessed = K, the three
\* lists hold K entries together and each of the K jobs is in exactly one.
C5_ResultsAccountForEveryJob ==
  returned.done /\ ~returned.enqueued =>
    LET res == returned.results
        K == Len(returned.queue)
    IN /\ res.totalProcessed = K
       /\ Len(res.successful) + Len(res.failed) + Len(res.duplicates) = K
       /\ \A j \in Range(returned.queue) : Appearances(res, j) = 1

\* C5 witness: a run on three queued jobs has returned, with a successful job,
\* a duplicate and a failure.
C5_Witness ==
  /\ returned.done
  /\ ~returned.enqueued
  /\ Len(returned.queue) = 3
  /\ returned.results.successful # <<>>
  /\ returned.results.failed # <<>>
  /\ returned.results.duplicates # <<>>

\* C6: a clearQueue call made while a run is active throws its error and
\* leaves the queue, the jobs, the job in flight and the rest of the run as they
\* were; a call made while idle empties the queue; so a call that throws
\* nothing was made while idle.
C6_ClearOnlyWhileIdle ==
  [][ lastCall'.op = "clearQueue" =>
        IF isProcessing
        THEN /\ lastCall'.error = "cannot clear while processing"
             /\ UNCHANGED <<processingQueue, jobs, job, awaited, results, isProcessing, pc,
                            processedHashes>>
        ELSE /\ lastCall'.error # "cannot clear while processing"
             /\ processingQueue' = <<>>
    ]_vars

\* C6 witness: clearQueue has just been refused during a run that has a job
\* in flight and jobs waiting.
C6_Witness ==
  /\ lastCall = [op |-> "clearQueue", error |-> "cannot clear while processing"]
  /\ pc = "awaitDocument"
  /\ processingQueue # <<>>

\* C6 witness, idle case: clearQueue has just emptied a queue that held
\* pending jobs.
C6_WitnessIdle ==
  /\ lastCall = [op |-> "clearQueue", error |-> "none"]
  /\ processingQueue = <<>>
  /\ \E j \in DOMAIN jobs : jobs[j].status = "pending"

\* C7: at most one job has status processing; a job is taken off the queue
\* only when every job taken before it has reached completed or failed, a
\* completed one with its hash registered at its completion; and a
\* processQueue call made during a run throws and changes nothing.
C7_StrictlySequential ==
  [][ /\ Cardinality({j \in DOMAIN jobs' : jobs'[j].status = "processing"}) <= 1
      /\ Moved("pending", "processing") # {} =>
           \A k \in DOMAIN jobs : jobs[k].status \in {"pending"} \cup Terminal
      /\ \A j \in Moved("processing", "completed") : HashOfJob(j) \in processedHashes'
      /\ lastCall'.op = "processQueue" /\ isProcessing =>
           /\ lastCall'.error = "already processing"
           /\ UNCHANGED <<processingQueue, jobs, job, awaited, results, isProcessing, pc,
                          processedHashes>>
    ]_vars


\* C8 as stated: of two processDocument calls with the same text against the
\* caller's registry, the first returning a result, the second signals a
\* duplicate carrying the contentHash the first returned.
C8_SecondCallIsDuplicate ==
  \A i, k \in DOMAIN calls :
    /\ i < k
    /\ calls[i].documentContent = calls[k].documentContent
    /\ calls[i].outcome.kind = "result"
    => /\ calls[k].outcome.kind = "DuplicateDocumentError"
       /\ calls[k].outcome.contentHash = calls[i].outcome.contentHash

\* C8 amended: the second call signals the duplicate, with the contentHash the
\* first call returned, when that hash is in the registry the second call is
\* given: processDocument does not add it, the caller does.
C8_SecondCallIsDuplicateOnceRegistered ==
  \A i, k \in DOMAIN calls :
    /\ i < k
    /\ calls[i].documentContent = calls[k].documentContent
    /\ calls[i].outcome.kind = "result"
    /\ calls[i].outcome.contentHash \in calls[k].existingHashes
    => /\ calls[k].outcome.kind = "DuplicateDocumentError"
       /\ calls[k].outcome.contentHash = calls[i].outcome.contentHash

\* C8 witness: a text that cleaning changes was processed, its contentHash
\* registered, and the same text was refused as a duplicate.
C8_Witness ==
  \E i, k \in DOMAIN calls :
    /\ i < k
    /\ calls[i].documentContent = TextA2
    /\ calls[k].documentContent = TextA2
    /\ calls[i].outcome.kind = "result"
    /\ calls[i].outcome.contentHash \in calls[k].existingHashes
    /\ calls[k].outcome.kind = "DuplicateDocumentError"

\* C9: a processDocument call whose cleaned text hashes to a member of the
\* registry it is given ends with the duplicate error carrying that hash,
\* having run no classification, validation or category processor.
C9_DuplicateCheckedBeforeClassification ==
  \A i \in DOMAIN calls :
    LET c == calls[i] IN
    IsString(c.documentContent)
    /\ generateContentHash(cleanContent(c.documentContent)) \in c.existingHashes
    => /\ c.outcome.kind = "DuplicateDocumentError"
       /\ c.outcome.contentHash = generateContentHash(cleanContent(c.documentContent))
       /\ Range(c.outcome.stages) \cap Range(StagesAfterCheck) = {}

\* C9 witness: a call was refused as a duplicate.
C9_Witness ==
  \E i \in DOMAIN calls :
    /\ calls[i].outcome.kind = "DuplicateDocumentError"
    /\ calls[i].outcome.contentHash \in calls[i].existingHashes

\* C10 as stated: no step removes a hash from the registry.
C10_RegistryOnlyGrows ==
  [][processedHashes \subseteq processedHashes']_vars

\* C10 amended: a step removes hashes from the registry only if it is a
\* resetProcessedHashes call, which empties it.
C10_RegistryGrowsExceptOnReset ==
  [][ \/ processedHashes \subseteq processedHashes'
      \/ lastCall'.op = "resetProcessedHashes" /\ processedHashes' = {}
    ]_vars

\* C10 witness: a loadExistingHashes call has just returned and the hash that an
\* earlier run registered for a completed job is still in the registry.
C10_Witness ==
  /\ lastCall.op = "loadExistingHashes"
  /\ \E j \in DOMAIN jobs :
       /\ jobs[j].status = "completed"
       /\ HashOfJob(j) \in processedHashes

\* The number of jobs of `js` that have finished (completed or failed).
FinishedSoFar(js) == Cardinality({j \in DOMAIN js : js[j].status \in Terminal})

\* C11: a step of a run that changes the status of a job reports to the progress
\* callback a percentage equal to the rounded share of the jobs admitted that
\* have finished so far.
C11_PercentageOfFinishedJobs ==
  [][ /\ lastCall'.op \in RunSteps
      /\ progressCallback = "given"
      /\ \E j \in DOMAIN jobs : jobs'[j].status # jobs[j].status
      => /\ lastProgress' # <<>>
         /\ lastProgress'[1].percentage = RoundPercent(FinishedSoFar(jobs'), Len(jobs'))
    ]_vars

\* classifyDocument has returned for the text of `input`.
Classified == input.fn = "classifyDocument" /\ output.done

\* The types one of whose identifiers, or identifiers and structure elements,
\* the text includes.
TypesWithIdentifier(content) ==
  {t \in Range(DocumentTypes) : \E i \in DOMAIN identifiers(t) : includes(content, identifiers(t)[i])}
TypesWithPattern(content) ==
  TypesWithIdentifier(content) \cup
  {t \in Range(DocumentTypes) : \E i \in DOMAIN structure(t) : includes(content, structure(t)[i])}

\* C12: for the empty text, and for a text that includes no identifier and no
\* structure element of any profile, classifyDocument returns others with
\* confidence 0.
C12_NoMatchIsOthers ==
  Classified /\ TypesWithPattern(input.content) = {}
    => output.value.type = "others" /\ output.value.confidence.num = 0

\* C12 witnesses: the empty text has been classified; a text of two words that
\* includes no string of any profile has been classified.
C12_Witness == Classified /\ input.content = <<>>
C12_WitnessWords ==
  Classified /\ Len(input.content) > 5 /\ TypesWithPattern(input.content) = {}

\* C13: the confidence returned is at least 0 and at most 1.
C13_ConfidenceInUnitInterval ==
  Classified =>
    /\ output.value.confidence.den > 0
    /\ 0 <= output.value.confidence.num
    /\ output.value.confidence.num <= output.value.confidence.den

\* C13 witness: a text has been classified with a confidence above 0.
C13_Witness == Classified /\ output.value.confidence.num > 0

\* The position of a type in the order of definition of the profiles.
OrderOf(type) == CHOOSE i \in DOMAIN DocumentTypes : DocumentTypes[i] = type

\* The types whose score is the highest of all, that score being above 0.
TopTypes(content) ==
  {t \in TypesWithPattern(content) :
     \A u \in Range(DocumentTypes) : scores(content, u).score <= scores(content, t).score}

C15_UniqueIdentifierDecides ==
  Classified =>
    \A t \in Range(DocumentTypes) :
      TypesWithIdentifier(input.content) = {t}
        => output.value.type = t /\ output.value.confidence.num > 0

\* C16: cleaning a cleaned text gives the cleaned text again.
C16_CleanContentIdempotent ==
  input.fn = "cleanContent" /\ output.done => output.value.twice = output.value.once

\* ruleBasedChunking has returned for the call of `input`.
Chunked == input.fn = "ruleBasedChunking" /\ output.done

\* The chunks collected before the final filter, for the call of `input`.
Collected ==
  LET text == trim(input.documentText)
  IN IF Len(text) = 0 THEN <<>>
     ELSE withEmergency(categoryChunks(text, input.documentType), text)

\* C17: every chunk returned, trimmed, is longer than 30 characters.
C17_ChunksLongerThan30 ==
  Chunked => \A i \in DOMAIN output.value : Len(trim(output.value[i])) > 30

\* C17 witness: some chunks have been returned and the filter has dropped
\* another.
C17_Witness ==
  Chunked /\ Len(output.value) > 0 /\ Len(output.value) < Len(Collected)

\* C18: for a text that is not empty, whatever the document type, at least
\* one chunk is returned.
C18_AtLeastOneChunk ==
  Chunked /\ Len(trim(input.documentText)) > 0 => Len(output.value) >= 1

\* The positions of text at which an article marker of a law stands.
ArticleMarkers(text) == {i \in 1..Len(text) : LawArticleAt(text, i)}

\* The article that begins at the marker m: the text up to the next marker,
\* without the white space around it.
ArticleFrom(text, m) ==
  LET later == {p \in ArticleMarkers(text) : p > m}
  IN trim(SubSeq(text, m, IF later = {} THEN Len(text)
                          ELSE (CHOOSE p \in later : \A q \in later : p <= q) - 1))

\* C19: a law with N article markers gives at least N chunks, every article is
\* a chunk of its own that begins with its marker, and no chunk holds the
\* markers of two articles.
C19_EachArticleItsOwnChunk ==
  Chunked /\ input.documentType = "laws" =>
    LET text == trim(input.documentText)
        chunks == output.value
    IN /\ Len(chunks) >= Cardinality(ArticleMarkers(text))
       /\ \A m \in ArticleMarkers(text) : \E k \in DOMAIN chunks : chunks[k] = ArticleFrom(text, m)
       /\ \A k \in DOMAIN chunks : Cardinality(ArticleMarkers(chunks[k])) <= 1

\* The decree part of a royal decree: the text before the first marker of an
\* attached agreement or law; the attached part: the text from that marker on.
DecreePart(text) == SubSeq(text, 1, search(text))
AttachedPart(text) == SubSeq(text, search(text) + 1, Len(text))

\* C20: in a royal decree with a marker of an attached text, the chunks cut
\* from the decree part all come before the chunks cut from the attached part,
\* and every chunk lies within one of the two parts.
C20_DecreeBeforeAttached ==
  Chunked /\ input.documentType = "royal_decrees" =>
    LET text == trim(input.documentText)
        chunks == output.value
    IN search(text) >= 0 =>
         \E k \in 0..Len(chunks) :
           /\ \A i \in 1..k : includes(DecreePart(text), chunks[i])
           /\ \A i \in (k + 1)..Len(chunks) : includes(AttachedPart(text), chunks[i])

\* C20 amended: the same, for a royal decree in which the rules of its type
\* find at least one chunk, so that the sentences of the whole text are not
\* packed by the emergency split.
C20_DecreeBeforeAttachedUnlessEmergency ==
  Chunked /\ input.documentType = "royal_decrees" =>
    LET text == trim(input.documentText)
        chunks == output.value
    IN search(text) >= 0 /\ Len(categoryChunks(text, "royal_decrees")) > 0 =>
         \E k \in 0..Len(chunks) :
           /\ \A i \in 1..k : includes(DecreePart(text), chunks[i])
           /\ \A i \in (k + 1)..Len(chunks) : includes(AttachedPart(text), chunks[i])

\* C20 witness: a royal decree with an attached agreement has given two
\* chunks, the first cut from the decree part only and the second from the
\* attached part only.
C20_Witness ==
  /\ Chunked
  /\ input.documentType = "royal_decrees"
  /\ LET text == trim(input.documentText)
         chunks == output.value
     IN /\ search(text) > 0
        /\ Len(chunks) = 2
        /\ includes(DecreePart(text), chunks[1]) /\ ~includes(AttachedPart(text), chunks[1])
        /\ includes(AttachedPart(text), chunks[2]) /\ ~includes(DecreePart(text), chunks[2])

\* The positions of text at which a question marker stands, and those at
\* which a section of a fatwa (question, answer or legal basis) begins.
QuestionMarks(text) == {i \in 1..Len(text) : At(text, i, Question)}
SectionMarks(text) == {i \in 1..Len(text) : FatwaSectionAt(text, i)}

\* The section that begins at the marker m: the text up to the next section,
\* without the white space around it.
SectionFrom(text, m) ==
  LET later == {p \in SectionMarks(text) : p > m}
  IN trim(SubSeq(text, m, IF later = {} THEN Len(text)
                          ELSE (CHOOSE p \in later : \A q \in later : p <= q) - 1))

\* C21: for a fatwa text that begins with a question, there is one chunk per
\* question marker, in order, and every section (the question, its answer, its
\* legal basis) is held by the chunk of the last question marker at or before
\* it; a text of one question and its answer gives exactly one chunk that
\* holds both.
C21_QuestionOpensChunkOfItsAnswer ==
  Chunked /\ input.documentType = "fatwas" =>
    LET text == trim(input.documentText)
        chunks == output.value
    IN 1 \in QuestionMarks(text) =>
         /\ Len(chunks) = Cardinality(QuestionMarks(text))
         /\ \A m \in SectionMarks(text) :
              includes(chunks[Cardinality({q \in QuestionMarks(text) : q <= m})],
                       SectionFrom(text, m))

\* The number of strings of `list` that content includes, each counted once
\* however often it occurs in content.
PresentCount(content, list) ==
  Cardinality({i \in DOMAIN list : includes(content, list[i])})

\* The positions at which s occurs in content.
OccurrencesOf(content, s) ==
  {i \in 1..(Len(content) - Len(s) + 1) : SubSeq(content, i, i + Len(s) - 1) = s}

\* Twice the number of identifiers of a profile plus the number of its
\* structure elements: its highest possible score, in half points.
RichnessOf(type) == 2 * Len(identifiers(type)) + Len(structure(type))

\* C24: the confidence returned is the score of the type returned, 1 for each
\* of its identifiers present and 0.5 for each of its structure elements
\* present, divided by the highest possible score of the richest profile; the
\* patterns returned are the strings of that type that are present.
C24_ScoreOverRichestProfile ==
  Classified =>
    LET type == output.value.type
        halves == 2 * PresentCount(input.content, identifiers(type))
                  + PresentCount(input.content, structure(type))
    IN /\ \E richest \in Range(DocumentTypes) :
            /\ \A t \in Range(DocumentTypes) : RichnessOf(t) <= RichnessOf(richest)
            /\ output.value.confidence.num * RichnessOf(richest)
                 = halves * output.value.confidence.den
       /\ Len(output.value.matchedPatterns)
            = PresentCount(input.content, identifiers(type))
              + PresentCount(input.content, structure(type))

\* C24 witness: the type returned is not the richest profile, the text holds
\* one of its identifiers twice and one of its structure elements, and the
\* confidence is above 0.
C24_Witness ==
  /\ Classified
  /\ LET type == output.value.type
     IN /\ \E t \in Range(DocumentTypes) : RichnessOf(t) > RichnessOf(type)
        /\ PresentCount(input.content, structure(type)) > 0
        /\ \E k \in DOMAIN identifiers(type) :
             Cardinality(OccurrencesOf(input.content, identifiers(type)[k])) >= 2
        /\ output.value.confidence.num > 0

\* The paragraphs of a chunk: its pieces between blank lines that are not
\* empty.
ParagraphsOf(chunk) ==
  SelectSeq(Trimmed(splitOn("paragraph", chunk, 1)), LAMBDA paragraph : Len(paragraph) > 0)

\* C25: for a judicial text with no numbered principle, whose paragraphs are
\* therefore packed, every chunk that holds two or more paragraphs has at most
\* 1500 characters.
C25_PackedChunksAtMost1500 ==
  Chunked /\ input.documentType \in {"judicial_civil", "judicial_criminal", "judicial_principles"} =>
    LET text == trim(input.documentText)
        chunks == output.value
    IN Points("principle", text) = {} =>
         \A k \in DOMAIN chunks : Len(ParagraphsOf(chunks[k])) >= 2 => Len(chunks[k]) <= 1500

\* C26: isProcessing is true exactly while a run stands at one of its two
\* awaits; the step in which a run ends, by returning its results or by an
\* exception of the progress callback, leaves the manager idle; a processQueue
\* or clearQueue call made while idle is not rejected; and a rejected
\* processQueue call leaves isProcessing true.
C26_BusyExactlyDuringRun ==
  /\ [](isProcessing <=> pc \in {"awaitDocument", "delay"})
  /\ [][ /\ (lastCall'.op \in RunSteps /\ (returned'.done \/ lastCall'.error = "callback"))
              => ~isProcessing' /\ pc' = "idle"
         /\ (~isProcessing /\ lastCall'.op \in {"processQueue", "clearQueue"})
              => lastCall'.error \notin {"already processing", "cannot clear while processing"}
         /\ lastCall'.error = "already processing" => isProcessing /\ isProcessing'
       ]_vars

\* C26 witness: a run was ended by an exception of the progress callback while
\* its job was in hand, and a clearQueue call made after it has been accepted.
C26_Witness ==
  /\ lastCall.op = "clearQueue"
  /\ lastCall.error # "cannot clear while processing"
  /\ ~isProcessing
  /\ \E j \in DOMAIN jobs : jobs[j].status = "processing"

\* C26 witness: a processQueue call has just been rejected and the run in
\* progress is still busy.
C26_WitnessRejected ==
  lastCall.error = "already processing" /\ isProcessing /\ pc = "awaitDocument"

\* The jobs of queue stand in the order of their priority and, within one
\* priority, of their admission.
InPriorityOrder(js, queue) ==
  \A p, q \in DOMAIN queue :
    p < q => \/ priorityOrder(js[queue[p]].priority) > priorityOrder(js[queue[q]].priority)
             \/ /\ priorityOrder(js[queue[p]].priority) = priorityOrder(js[queue[q]].priority)
                /\ queue[p] < queue[q]

\* C27: an addDocumentsToQueue call made during a run puts its jobs among the
\* waiting jobs in the order of priority and leaves the job in flight as it
\* was; during the run a waiting job leaves the queue only to be processed; and
\* a run during which jobs were enqueued ends only by returning its results,
\* with no job left waiting or in flight, every job it lists completed or
\* failed and as many jobs counted as listed.
C27_EnqueuedDuringRunIsProcessed ==
  [][ /\ lastCall'.op = "addDocumentsToQueue" /\ isProcessing =>
           /\ (Len(jobs) + 1)..Len(jobs') \subseteq Range(processingQueue')
           /\ InPriorityOrder(jobs', processingQueue')
           /\ job' = job /\ awaited' = awaited /\ pc' = pc
           /\ job \notin Range(processingQueue')
           /\ \A j \in DOMAIN jobs : jobs'[j] = jobs[j]
      /\ isProcessing =>
           \A j \in Range(processingQueue) \ Range(processingQueue') :
             j = Head(processingQueue) /\ jobs'[j].status = "processing"
      /\ isProcessing /\ ~isProcessing' /\ enqueuedInRun =>
           /\ returned'.done
           /\ processingQueue' = <<>> /\ job = 0
           /\ LET res == returned'.results
                  listed == {j \in DOMAIN jobs' : Appearances(res, j) > 0}
              IN /\ \A j \in listed : jobs'[j].status \in Terminal /\ Appearances(res, j) = 1
                 /\ res.totalProcessed = Cardinality(listed)
                 /\ res.totalProcessed > Len(returned'.queue)
    ]_vars

\* The jobs that the results `res` of a run list as successful, as duplicates,
\* and in any of the three lists.
SuccessfulIn(res) == {res.successful[i].jobId : i \in DOMAIN res.successful}
DuplicatesIn(res) == {res.duplicates[i].jobId : i \in DOMAIN res.duplicates}
ListedIn(res) ==
  SuccessfulIn(res) \cup DuplicatesIn(res) \cup {res.failed[i].jobId : i \in DOMAIN res.failed}

\* C28: among the jobs one run has processed, two jobs whose texts clean to
\* the same content are never both successful, and when one of them is
\* successful the other is reported as a duplicate; this holds of the results
\* of the run in progress and of the results a run returns.
C28_OneCompletedPerHashInRun ==
  \A res \in {results, returned.results} :
    \A j, k \in ListedIn(res) :
      /\ j # k
      /\ IsString(jobs[j].input.content) /\ IsString(jobs[k].input.content)
      /\ HashOfJob(j) = HashOfJob(k)
      /\ j \in SuccessfulIn(res)
      => k \in DuplicatesIn(res)

\* C29: a processDocument call, whatever its outcome, leaves the registry it
\* was given as it was; the registry changes only in a step in which the
\* caller adds the contentHash that a call has returned with its result.
C29_ProcessDocumentLeavesRegistry ==
  [][ /\ Len(calls') > Len(calls) => existingHashes' = existingHashes
      /\ existingHashes' # existingHashes =>
           /\ calls' = calls
           /\ \E i \in DOMAIN calls :
                /\ calls[i].outcome.kind = "result"
                /\ existingHashes' = existingHashes \cup {calls[i].outcome.contentHash}
    ]_vars

\* C29 witness: a call has returned a result, a call has signalled a duplicate
\* and a call has failed, and the registry is still the one the last call was
\* given, with the hash the caller added after the first.
C29_Witness ==
  /\ \E i, k, n \in DOMAIN calls :
       /\ calls[i].outcome.kind = "result"
       /\ calls[k].outcome.kind = "DuplicateDocumentError"
       /\ calls[n].outcome.kind = "TypeError"
       /\ calls[i].outcome.contentHash \in existingHashes \ calls[i].existingHashes
  /\ existingHashes = calls[Len(calls)].existingHashes

\* The result of the processDocument call made, once it has returned one.
ProcessedResult == input.fn = "processDocument" /\ output.done /\ output.value.kind = "result"

\* C22: every chunk of a processDocument result has a content of more than 30
\* characters once trimmed, whatever the category of the document.
C22_ResultChunksLongerThan30 ==
  ProcessedResult =>
    \A i \in DOMAIN output.value.chunks : Len(trim(output.value.chunks[i].content)) > 30

\* C23: the ocrConfidence given to processDocument is in the metadata of the
\* result and in the metadata of each of its chunks as it was given: a value,
\* 0 included, as that value, and none as none.
C23_ConfidencePassedThrough ==
  ProcessedResult =>
    /\ output.value.metadata.ocrConfidence = input.ocrConfidence
    /\ \A i \in DOMAIN output.value.chunks :
         output.value.chunks[i].ocr_confidence = input.ocrConfidence

\* C30: a job that is completed has a result of at least one chunk, and so has
\* every entry of the successful list of the run.
C30_CompletedJobHasChunk ==
  /\ \A j \in DOMAIN jobs : jobs[j].status = "completed" => Len(jobs[j].result.chunks) >= 1
  /\ \A i \in DOMAIN results.successful : results.successful[i].chunksCount >= 1

====
